---- MODULE Spec2Model ----
(***************************************************************************)
(* Plugin layer of the chatbot platform: BasePlugin lifecycle and          *)
(* validation, the concrete WhatsApp / WordPress / HTML-CSS plugins, the   *)
(* PluginRegistry, the generic webhook dispatcher and the plugin           *)
(* configuration store with its HTTP handlers.                             *)
(***************************************************************************)
EXTENDS Integers, Sequences, FiniteSets, TLC

(***************************************************************************)
(* JavaScript values.  A string is a sequence of one-character strings so  *)
(* that the regular expressions of the plugins can be evaluated.           *)
(***************************************************************************)
Undefined == [t |-> "undefined"]
Null == [t |-> "null"]
Str(s) == [t |-> "string", s |-> s]
Num(n) == [t |-> "number", n |-> n]

IsString(v) == v.t = "string"

\* JavaScript truthiness of a value (used by `x && ...`, `!x`, `if (x)`).
Truthy(v) ==
  CASE v.t = "undefined" -> FALSE
    [] v.t = "null" -> FALSE
    [] v.t = "string" -> v.s # <<>>
    [] v.t = "number" -> v.n # 0

\* config[key]: a key the object does not have reads as undefined.
Get(config, key) == IF key \in DOMAIN config THEN config[key] ELSE Undefined

\* { ...config }: a shallow copy with the same own keys and values.
Spread(config) == [k \in DOMAIN config |-> config[k]]

Digits == {"0", "1", "2", "3", "4", "5", "6", "7", "8", "9"}
HexLetters == {"a", "b", "c", "d", "e", "f", "A", "B", "C", "D", "E", "F"}
Letters ==
  {"a", "b", "c", "d", "e", "f", "g", "h", "i", "j", "k", "l", "m", "n", "o",
   "p", "q", "r", "s", "t", "u", "v", "w", "x", "y", "z",
   "A", "B", "C", "D", "E", "F", "G", "H", "I", "J", "K", "L", "M", "N", "O",
   "P", "Q", "R", "S", "T", "U", "V", "W", "X", "Y", "Z"}
Whitespace == {" "}

HasPrefix(s, p) == Len(s) >= Len(p) /\ SubSeq(s, 1, Len(p)) = p

\* /^\d+$/
MatchesDigits(s) == Len(s) > 0 /\ \A i \in 1..Len(s) : s[i] \in Digits

\* /^https?:\/\/.+/
MatchesUrl(s) ==
  \/ HasPrefix(s, <<"h", "t", "t", "p", ":", "/", "/">>) /\ Len(s) > 7
  \/ HasPrefix(s, <<"h", "t", "t", "p", "s", ":", "/", "/">>) /\ Len(s) > 8

\* /^#[0-9A-Fa-f]{6}$/
MatchesHexColor(s) ==
  /\ Len(s) = 7
  /\ s[1] = "#"
  /\ \A i \in 2..7 : s[i] \in Digits \cup HexLetters

\* String.prototype.split(sep) for a one-character separator.
RECURSIVE SplitOn(_, _)
SplitOn(s, sep) ==
  IF \E i \in 1..Len(s) : s[i] = sep
  THEN LET i == CHOOSE j \in 1..Len(s) :
                  s[j] = sep /\ \A k \in 1..(j - 1) : s[k] # sep
       IN <<SubSeq(s, 1, i - 1)>> \o SplitOn(SubSeq(s, i + 1, Len(s)), sep)
  ELSE <<s>>

\* String.prototype.trim()
RECURSIVE Trim(_)
Trim(s) ==
  IF s = <<>> THEN s
  ELSE IF s[1] \in Whitespace THEN Trim(Tail(s))
  ELSE IF s[Len(s)] \in Whitespace THEN Trim(SubSeq(s, 1, Len(s) - 1))
  ELSE s

\* /^[a-zA-Z0-9][a-zA-Z0-9-]{0,61}[a-zA-Z0-9](?:\.[a-zA-Z]{2,})+$/
\* No character class of the expression contains ".", so the match is decided
\* on the dot-separated parts: a first label and one or more letter groups.
MatchesDomain(s) ==
  LET parts == SplitOn(s, ".")
      label == parts[1]
  IN /\ Len(parts) >= 2
     /\ Len(label) >= 2
     /\ Len(label) <= 63
     /\ label[1] \in Letters \cup Digits
     /\ label[Len(label)] \in Letters \cup Digits
     /\ \A i \in 1..Len(label) : label[i] \in Letters \cup Digits \cup {"-"}
     /\ \A p \in 2..Len(parts) :
          /\ Len(parts[p]) >= 2
          /\ \A i \in 1..Len(parts[p]) : parts[p][i] \in Letters

(***************************************************************************)
(* The concrete plugins.  A plugin object is identified by its id, its     *)
(* platform and the class ("kind") that supplies its schema and hooks.     *)
(***************************************************************************)
Field(key, required) == [key |-> key, required |-> required]

WordPressSchema ==
  <<Field("siteUrl", TRUE), Field("apiKey", TRUE), Field("apiSecret", TRUE),
    Field("embedLocation", TRUE), Field("specificPages", FALSE)>>

WhatsAppSchema ==
  <<Field("phoneNumberId", TRUE), Field("accessToken", TRUE),
    Field("apiVersion", TRUE), Field("verifyToken", TRUE),
    Field("businessName", TRUE)>>

HtmlCssSchema ==
  <<Field("allowedDomains", TRUE), Field("chatbotTitle", TRUE),
    Field("primaryColor", TRUE), Field("secondaryColor", FALSE),
    Field("position", TRUE), Field("customCSS", FALSE),
    Field("autoOpen", FALSE), Field("showOnMobile", FALSE)>>

HtmlCssEnhancedSchema ==
  HtmlCssSchema \o <<Field("trackApiUsage", FALSE), Field("apiKey", FALSE)>>

configSchema(plugin) ==
  CASE plugin.kind = "wordpress" -> WordPressSchema
    [] plugin.kind = "whatsapp" -> WhatsAppSchema
    [] plugin.kind = "html-css" -> HtmlCssSchema
    [] plugin.kind = "html-css-enhanced" -> HtmlCssEnhancedSchema
    [] OTHER -> <<>>

WordPressPlugin ==
  [id |-> "wordpress", platform |-> "wordpress", kind |-> "wordpress"]
WhatsAppPlugin ==
  [id |-> "whatsapp", platform |-> "whatsapp", kind |-> "whatsapp"]
HtmlCssPlugin ==
  [id |-> "html-css", platform |-> "html-css", kind |-> "html-css"]
HtmlCssPluginEnhanced ==
  [id |-> "html-css-enhanced", platform |-> "html-css",
   kind |-> "html-css-enhanced"]

\* Result of a hook that returns an errors object or throws.
Errors(keys) == [threw |-> FALSE, errors |-> keys]
Threw == [threw |-> TRUE, errors |-> {}]

\* `v && !v.match(re)`: a falsy v skips the test, a truthy string is matched,
\* any other truthy value has no match method and the call throws TypeError.
\* matches is the outcome of the match when v is a string.
MatchCheck(v, matches) ==
  IF ~Truthy(v) THEN "ok"
  ELSE IF ~IsString(v) THEN "throws"
  ELSE IF matches THEN "ok" ELSE "error"

\* The characters of a string value, none for any other value.
Chars(v) == IF IsString(v) THEN v.s ELSE <<>>

\* WhatsAppPlugin.onValidateConfig
WhatsAppOnValidateConfig(config) ==
  LET id == MatchCheck(Get(config, "phoneNumberId"),
                      MatchesDigits(Chars(Get(config, "phoneNumberId"))))
      tok == Get(config, "accessToken")
      \* config.accessToken.length < 10: a number has no length, and
      \* undefined < 10 is false
      tokShort == Truthy(tok) /\ IsString(tok) /\ Len(tok.s) < 10
  IN IF id = "throws" THEN Threw
     ELSE Errors((IF id = "error" THEN {"phoneNumberId"} ELSE {})
                 \cup (IF tokShort THEN {"accessToken"} ELSE {}))

\* WordPressPlugin.onValidateConfig
WordPressOnValidateConfig(config) ==
  LET url == MatchCheck(Get(config, "siteUrl"),
                      MatchesUrl(Chars(Get(config, "siteUrl"))))
      specific ==
        /\ Get(config, "embedLocation")
             = Str(<<"s", "p", "e", "c", "i", "f", "i", "c">>)
        /\ ~Truthy(Get(config, "specificPages"))
  IN IF url = "throws" THEN Threw
     ELSE Errors((IF url = "error" THEN {"siteUrl"} ELSE {})
                 \cup (IF specific THEN {"specificPages"} ELSE {}))

\* config.allowedDomains.split(',').map(d => d.trim()) with every domain
\* matched against the domain expression
DomainsCheck(v) ==
  IF ~Truthy(v) THEN "ok"
  ELSE IF ~IsString(v) THEN "throws"
  ELSE LET domains == SplitOn(v.s, ",")
       IN IF \A i \in 1..Len(domains) : MatchesDomain(Trim(domains[i]))
          THEN "ok" ELSE "error"

\* HtmlCssPlugin.onValidateConfig (HtmlCssPluginEnhanced has the same body)
HtmlCssOnValidateConfig(config) ==
  LET dom == DomainsCheck(Get(config, "allowedDomains"))
      pri == MatchCheck(Get(config, "primaryColor"),
                      MatchesHexColor(Chars(Get(config, "primaryColor"))))
      sec == MatchCheck(Get(config, "secondaryColor"),
                      MatchesHexColor(Chars(Get(config, "secondaryColor"))))
  IN IF "throws" \in {dom, pri, sec} THEN Threw
     ELSE Errors((IF dom = "error" THEN {"allowedDomains"} ELSE {})
                 \cup (IF pri = "error" THEN {"primaryColor"} ELSE {})
                 \cup (IF sec = "error" THEN {"secondaryColor"} ELSE {}))

onValidateConfig(plugin, config) ==
  CASE plugin.kind = "wordpress" -> WordPressOnValidateConfig(config)
    [] plugin.kind = "whatsapp" -> WhatsAppOnValidateConfig(config)
    [] plugin.kind \in {"html-css", "html-css-enhanced"} ->
         HtmlCssOnValidateConfig(config)
    [] OTHER -> Errors({})

\* The required-field loop of BasePlugin.validateConfig.
RequiredErrors(plugin, config) ==
  LET schema == configSchema(plugin)
  IN {schema[i].key : i \in
        {j \in 1..Len(schema) :
           /\ schema[j].required
           /\ Get(config, schema[j].key) \in {Undefined, Null, Str(<<>>)}}}

\* BasePlugin.validateConfig: {valid, errors}, or the exception of the
\* platform hook, which it does not catch.
validateConfig(plugin, config) ==
  IF config = Null
  THEN \* config[field.key] of null is a TypeError
       [threw |-> TRUE, valid |-> FALSE, errors |-> {}]
  ELSE LET platformErrors == onValidateConfig(plugin, config)
           errors == RequiredErrors(plugin, config) \cup platformErrors.errors
       IN IF platformErrors.threw
          THEN [threw |-> TRUE, valid |-> FALSE, errors |-> {}]
          ELSE [threw |-> FALSE, valid |-> errors = {}, errors |-> errors]

\* onInitialize of each plugin class on this.config: TRUE when it returns,
\* FALSE when it throws.
onInitialize(plugin, config) ==
  CASE plugin.kind = "whatsapp" ->
         \* testConnection: connected unless !phoneNumberId || !accessToken
         Truthy(Get(config, "phoneNumberId")) /\ Truthy(Get(config, "accessToken"))
    [] plugin.kind = "wordpress" ->
         \* testConnection: !url || !url.match(...) is not connected; an
         \* exception of url.match is caught there and is not connected either
         LET url == Get(config, "siteUrl")
         IN Truthy(url) /\ IsString(url) /\ MatchesUrl(url.s)
    [] plugin.kind \in {"html-css", "html-css-enhanced"} ->
         \* allowedDomains?.split(','): undefined and null give [] (length 0,
         \* throws), a string gives at least one element, any other value has
         \* no split method (TypeError)
         IsString(Get(config, "allowedDomains"))
    [] OTHER -> TRUE

(***************************************************************************)
(* Configurations offered to the plugins: one well-formed configuration    *)
(* per plugin class and the configurations obtained from it by changing    *)
(* or dropping fields.                                                     *)
(***************************************************************************)
sDigits == <<"1", "2", "3">>
sAlnum == <<"1", "2", "a">>
sShort == <<"a", "b", "c">>
sToken == <<"a", "b", "c", "d", "e", "f", "g", "h", "i", "j">>
sUrl == <<"h", "t", "t", "p", "s", ":", "/", "/", "x">>
sFtp == <<"f", "t", "p", ":", "/", "/", "x">>
sDomain == <<"a", "b", ".", "i", "o">>
sDomains == <<"a", "b", ".", "i", "o", ",", " ", "c", "d", ".", "d", "e">>
sBadDomain == <<"a", "b">>
sColor == <<"#", "0", "0", "8", "4", "f", "f">>
sBadColor == <<"r", "e", "d">>
sSpecific == <<"s", "p", "e", "c", "i", "f", "i", "c">>
sAll == <<"a", "l", "l">>

Override(config, key, value) ==
  [k \in DOMAIN config \cup {key} |-> IF k = key THEN value ELSE config[k]]
Without(config, key) == [k \in DOMAIN config \ {key} |-> config[k]]

WhatsAppGood ==
  [phoneNumberId |-> Str(sDigits), accessToken |-> Str(sToken),
   apiVersion |-> Str(sShort), verifyToken |-> Str(sShort),
   businessName |-> Str(sShort)]
WordPressGood ==
  [siteUrl |-> Str(sUrl), apiKey |-> Str(sShort), apiSecret |-> Str(sShort),
   embedLocation |-> Str(sAll)]
HtmlCssGood ==
  [allowedDomains |-> Str(sDomain), chatbotTitle |-> Str(sShort),
   primaryColor |-> Str(sColor), position |-> Str(sShort)]

GoodConfig(plugin) ==
  CASE plugin.kind = "whatsapp" -> WhatsAppGood
    [] plugin.kind = "wordpress" -> WordPressGood
    [] OTHER -> HtmlCssGood

\* A second well-formed configuration of each class.
OtherGoodConfig(plugin) ==
  CASE plugin.kind = "whatsapp" ->
         Override(WhatsAppGood, "businessName", Str(sToken))
    [] plugin.kind = "wordpress" ->
         Override(Override(WordPressGood, "embedLocation", Str(sSpecific)),
                  "specificPages", Str(sDigits))
    [] OTHER -> Override(HtmlCssGood, "allowedDomains", Str(sDomains))

\* Values tried in a field.
FieldValues ==
  {Undefined, Null, Str(<<>>), Num(0), Num(12345), Str(sDigits), Str(sAlnum),
   Str(sToken), Str(sUrl), Str(sFtp), Str(sDomains), Str(sBadDomain),
   Str(sColor), Str(sBadColor), Str(sSpecific)}

\* The fields that the validation or the initialization hook of the class
\* looks at beyond the required-field loop, and one field it does not.
VariedKeys(plugin) ==
  CASE plugin.kind = "whatsapp" -> {"phoneNumberId", "accessToken", "verifyToken"}
    [] plugin.kind = "wordpress" -> {"siteUrl", "embedLocation", "apiKey"}
    [] OTHER -> {"allowedDomains", "primaryColor", "secondaryColor"}

Configs(plugin) ==
  LET good == GoodConfig(plugin)
      one == {Override(good, k, v) : k \in VariedKeys(plugin), v \in FieldValues}
      dropped == {Without(good, k) : k \in DOMAIN good}
      \* a field of the wrong type together with a missing required field
      two == {Without(Override(good, k, Num(12345)), d) :
                k \in VariedKeys(plugin), d \in DOMAIN good}
  IN {good, OtherGoodConfig(plugin)} \cup one \cup dropped \cup two

Plugins == {WordPressPlugin, WhatsAppPlugin, HtmlCssPlugin, HtmlCssPluginEnhanced}

\* Other implementations of ChatbotPlugin that a caller of registerPlugin
\* can pass: one under the id of the WhatsApp plugin, and plugins under an
\* id of their own that claim the whatsapp platform.  Their handleWebhook
\* returns a message, returns null or throws.
OtherPlugins ==
  {[id |-> "whatsapp", platform |-> "whatsapp", kind |-> "returns-message"],
   [id |-> "custom", platform |-> "whatsapp", kind |-> "returns-message"],
   [id |-> "custom", platform |-> "whatsapp", kind |-> "returns-null"],
   [id |-> "custom", platform |-> "whatsapp", kind |-> "throws"]}

PluginObjects == Plugins \cup OtherPlugins
PluginIds == {p.id : p \in PluginObjects}

\* Bound on the number of registerPlugin calls in a run.
MaxRegistrations == 3

\* Bounds of the plugin configuration store: requests in flight at a time
\* and rows inserted in a run.
MaxRequests == 2
MaxRowId == 2

\* Bound on the readings of the clock (new Date()) in a run.
MaxTime == 1

\* A request slot with no request in flight.
Idle == [pc |-> "idle"]

(***************************************************************************)
(* State.                                                                  *)
(*   self, enabled, config: one plugin object and its two mutable fields   *)
(*   lastCall: observation of the most recent initialize call on it        *)
(*   plugins: PluginRegistry.plugins, the Map in its iteration order      *)
(*   clock: number of registerPlugin calls so far (the registeredAt time)  *)
(*   latest: per id, the plugin of the most recent registerPlugin call     *)
(*     that no unregisterPlugin followed                                   *)
(*   webhook: the most recent webhook request and its response, kept       *)
(*     while the registry stays as that request saw it                     *)
(*   plugin_configs: the rows of table plugin_configs of plugins.db        *)
(*   sqlite_sequence: the largest id AUTOINCREMENT has handed out          *)
(*   production: whether NODE_ENV is 'production'                          *)
(*   accounts: the user ids that have an account in the account store      *)
(*   requests: the plugin-config requests in flight, each at the await     *)
(*     it is suspended at, with the handler's local variables              *)
(*   response: the plugin-config request the last step answered, with its  *)
(*     status and configId and with what the step did to the table;        *)
(*     empty when the last step answered none                              *)
(*   useRealDatabase: whether USE_REAL_DATABASE is 'true' (SQLite account  *)
(*     store) or not (in-memory account store)                             *)
(*   accountDb: per execution of the server, the account store accountDb   *)
(*   now: the time new Date() returns                                      *)
(*   calls: the last two account calls with their results                  *)
(*   agents: the rows of table agents of agents.db                         *)
(*   agentSeq: the AUTOINCREMENT counter of table agents                   *)
(*   llm: the generateChatCompletion call that is running                  *)
(*   dbAgents: db.agents, the in-memory agent collection                   *)
(*   sessions: the sessions object of the agentive-chat route              *)
(*   chats: the POST /agentive-chat requests in flight                     *)
(*   sessionLog: the createAgentiveSession and sendAgentiveMessage calls   *)
(*   creating: the account requests between lookup and createAccount       *)
(* created_at and updated_at of a plugin_configs row are readings of now;  *)
(* accounts holds user ids only, accountDb whole records.                  *)
(***************************************************************************)
VARIABLES self, enabled, config, lastCall, plugins, clock, latest, webhook,
          plugin_configs, sqlite_sequence, production, accounts,
          requests, response, useRealDatabase, accountDb, now, calls,
          agents, agentSeq, llm, dbAgents, sessions, chats, sessionLog, creating

vars ==
  <<self, enabled, config, lastCall, plugins, clock, latest, webhook,
    plugin_configs, sqlite_sequence, production, accounts,
    requests, response, useRealDatabase, accountDb, now, calls,
    agents, agentSeq, llm, dbAgents, sessions, chats, sessionLog, creating>>

lifecycleVars == <<self, enabled, config, lastCall>>
registryVars == <<plugins, clock, latest, webhook>>
storeVars ==
  <<plugin_configs, sqlite_sequence, production, accounts,
    requests, response>>
accountVars == <<useRealDatabase, accountDb, now, calls>>
agentVars == <<agents, agentSeq>>
serviceVars == <<llm, dbAgents, sessions, chats, sessionLog, creating>>

\* The executions of the server that are compared, each with an account
\* store of its own.
Executions == {1, 2}

\* new MockAccountDatabase() or a new accounts.db: no account.
EmptyAccountDb == [accounts |-> {}, userIdToAccountId |-> {},
                   emailToAccountId |-> {}]

InitAccounts ==
  /\ accountDb = [x \in Executions |-> EmptyAccountDb]
  /\ now = 0
  /\ calls = <<>>

\* agents.db after initializeDatabase on a new file: no row, and the
\* AUTOINCREMENT counter of the table at 0.
InitAgents ==
  /\ agents = {}
  /\ agentSeq = 0

\* The module state of the services: no generateChatCompletion call is
\* running, db.agents holds the default agent, the sessions object of the
\* agentive-chat route is empty, and no request is in flight.
InitServices ==
  /\ llm = [pc |-> "idle"]
  /\ dbAgents = <<[id |-> 1, userId |-> "default-user"]>>
  /\ sessions = {}
  /\ chats = <<>>
  /\ sessionLog = <<>>
  /\ creating = <<>>

\* new PluginRegistry(): an empty Map.
InitRegistry ==
  /\ plugins = <<>>
  /\ clock = 0
  /\ latest = [id \in PluginIds |-> <<>>]
  /\ webhook = <<>>

\* BasePlugin field initializers: enabled = false, config = {}.
InitLifecycle ==
  /\ enabled = FALSE
  /\ config = <<>>
  /\ lastCall = <<>>

\* plugins.db after initSchema on a new file, the in-memory account store
\* after construction, no request in flight.
InitStore ==
  /\ plugin_configs = {}
  /\ sqlite_sequence = 0
  /\ production \in BOOLEAN
  /\ accounts = {}
  /\ requests = [r \in 1..MaxRequests |-> Idle]
  /\ response = <<>>

InitPlugin ==
  /\ self \in Plugins
  /\ InitLifecycle
  /\ InitRegistry
  /\ InitStore
  /\ InitAccounts
  /\ InitAgents
  /\ InitServices
  /\ useRealDatabase = FALSE
  /\ production = FALSE

Observe(c, result) ==
  <<[config |-> c, result |-> result,
     again |-> lastCall # <<>> /\ lastCall[1].config = c]>>

\* initialize with the assignments of config and enabled moved in front of
\* the validation.
initializeAssignFirst(c) ==
  LET validationResult == validateConfig(self, c)
  IN /\ config' = Spread(c)
     /\ UNCHANGED self
     /\ IF validationResult.threw
        THEN enabled' = TRUE /\ lastCall' = Observe(c, "throws")
        ELSE IF ~validationResult.valid
        THEN enabled' = TRUE /\ lastCall' = Observe(c, "false")
        ELSE IF onInitialize(self, Spread(c))
        THEN enabled' = TRUE /\ lastCall' = Observe(c, "true")
        ELSE enabled' = FALSE /\ lastCall' = Observe(c, "false")

\* initialize that refuses to run again on a plugin that is already enabled.
initializeOnce(c) ==
  LET validationResult == validateConfig(self, c)
  IN IF validationResult.threw
     THEN /\ lastCall' = Observe(c, "throws")
          /\ UNCHANGED <<self, enabled, config>>
     ELSE IF ~validationResult.valid \/ enabled
     THEN /\ lastCall' = Observe(c, "false")
          /\ UNCHANGED <<self, enabled, config>>
     ELSE /\ config' = Spread(c)
          /\ IF onInitialize(self, Spread(c))
             THEN enabled' = TRUE /\ lastCall' = Observe(c, "true")
             ELSE enabled' = FALSE /\ lastCall' = Observe(c, "false")
          /\ UNCHANGED self

\* BasePlugin.initialize(config)
initialize(c) ==
  LET validationResult == validateConfig(self, c)
  IN IF validationResult.threw
     THEN \* the exception of validateConfig leaves the method
          /\ lastCall' = Observe(c, "throws")
          /\ UNCHANGED <<self, enabled, config>>
     ELSE IF ~validationResult.valid
     THEN /\ lastCall' = Observe(c, "false")
          /\ UNCHANGED <<self, enabled, config>>
     ELSE /\ config' = Spread(c)
          /\ IF onInitialize(self, Spread(c))
             THEN enabled' = TRUE /\ lastCall' = Observe(c, "true")
             ELSE enabled' = FALSE /\ lastCall' = Observe(c, "false")
          /\ UNCHANGED self

NextPlugin ==
  /\ \E c \in Configs(self) : initialize(c)
  /\ UNCHANGED <<registryVars, storeVars, accountVars, agentVars,
               serviceVars>>

SpecPlugin == InitPlugin /\ [][NextPlugin]_vars

(***************************************************************************)
(* PluginRegistry.  The Map is the sequence of its entries in iteration    *)
(* order (insertion order of the keys); an entry holds the key, the        *)
(* PluginRegistration value {plugin, registeredAt} and insertedAt, the     *)
(* time at which the key entered the Map.                                  *)
(***************************************************************************)
HasKey(id) == \E i \in 1..Len(plugins) : plugins[i].id = id

Remove(seq, id) ==
  LET Keep(e) == e.id # id
  IN SelectSeq(seq, Keep)

\* registerPlugin with an array push in place of Map.set.
registerPluginPush(plugin) ==
  /\ clock < MaxRegistrations
  /\ clock' = clock + 1
  /\ plugins' = Append(plugins, [id |-> plugin.id, plugin |-> plugin,
                                 registeredAt |-> clock + 1,
                                 insertedAt |-> clock + 1])
  /\ latest' = [latest EXCEPT ![plugin.id] = <<plugin>>]
  /\ webhook' = <<>>

\* PluginRegistry.registerPlugin: Map.set replaces the value of an existing
\* key in place and appends a new key.
registerPlugin(plugin) ==
  /\ clock < MaxRegistrations
  /\ clock' = clock + 1
  /\ plugins' =
       IF HasKey(plugin.id)
       THEN [i \in 1..Len(plugins) |->
               IF plugins[i].id = plugin.id
               THEN [id |-> plugin.id, plugin |-> plugin,
                     registeredAt |-> clock + 1,
                     insertedAt |-> plugins[i].insertedAt]
               ELSE plugins[i]]
       ELSE Append(plugins, [id |-> plugin.id, plugin |-> plugin,
                             registeredAt |-> clock + 1,
                             insertedAt |-> clock + 1])
  /\ latest' = [latest EXCEPT ![plugin.id] = <<plugin>>]
  /\ webhook' = <<>>

\* PluginRegistry.unregisterPlugin: Map.delete
unregisterPlugin(id) ==
  /\ plugins' = Remove(plugins, id)
  /\ latest' = [latest EXCEPT ![id] = <<>>]
  /\ webhook' = <<>>
  /\ UNCHANGED clock

\* PluginRegistry.getPlugin: the plugin in a one-element sequence, or <<>>
\* for undefined.
getPlugin(id) ==
  IF HasKey(id)
  THEN <<plugins[CHOOSE i \in 1..Len(plugins) : plugins[i].id = id].plugin>>
  ELSE <<>>

getAllPlugins == [i \in 1..Len(plugins) |-> plugins[i].plugin]

getPluginsByPlatform(platform) ==
  LET OnPlatform(plugin) == plugin.platform = platform
  IN SelectSeq(getAllPlugins, OnPlatform)

(***************************************************************************)
(* Webhook payloads, by the fields the handleWebhook methods read.         *)
(*   entry: shape of payload.entry for the WhatsApp plugin                 *)
(*   user_id, userId, message: whether the field is truthy                 *)
(***************************************************************************)
Payload(entry, user_id, userId, message) ==
  [entry |-> entry, user_id |-> user_id, userId |-> userId, message |-> message]

Payloads ==
  {Payload("absent", FALSE, FALSE, FALSE),
   Payload("no-changes", FALSE, FALSE, FALSE),
   Payload("no-messages", FALSE, FALSE, FALSE),
   Payload("message", FALSE, FALSE, FALSE),
   Payload("absent", TRUE, FALSE, TRUE),
   Payload("absent", FALSE, TRUE, TRUE)}

\* A request body: <<payload>>, or <<>> for a body that is not JSON.
Bodies == {<<>>} \cup {<<p>> : p \in Payloads}

\* The last segment of the request path.
Platforms == {"", "whatsapp", "wordpress", "html-css", "telegram"}

\* handleWebhook of each plugin class: "message", "null" or "throws".  The
\* three platform plugins catch every exception and return null.
handleWebhook(plugin, payload) ==
  CASE plugin.kind = "whatsapp" ->
         IF payload.entry = "message" THEN "message" ELSE "null"
    [] plugin.kind = "wordpress" ->
         IF payload.user_id /\ payload.message THEN "message" ELSE "null"
    [] plugin.kind \in {"html-css", "html-css-enhanced"} ->
         IF payload.userId /\ payload.message THEN "message" ELSE "null"
    [] plugin.kind = "returns-message" -> "message"
    [] plugin.kind = "returns-null" -> "null"
    [] OTHER -> "throws"

\* The loop of the dispatcher over the plugins with every plugin offered the
\* payload, the return on the first message removed.
RECURSIVE OfferAll(_, _)
OfferAll(list, payload) ==
  IF list = <<>> THEN [invoked |-> <<>>, handled |-> FALSE]
  ELSE LET rest == OfferAll(Tail(list), payload)
       IN [invoked |-> <<Head(list)>> \o rest.invoked,
           handled |-> handleWebhook(Head(list), payload) = "message"
                       \/ rest.handled]

\* The loop of the dispatcher without the try/catch around handleWebhook:
\* an exception of a plugin ends the loop.
RECURSIVE OfferAbort(_, _)
OfferAbort(list, payload) ==
  IF list = <<>> THEN [invoked |-> <<>>, handled |-> FALSE]
  ELSE IF handleWebhook(Head(list), payload) = "message"
  THEN [invoked |-> <<Head(list)>>, handled |-> TRUE]
  ELSE IF handleWebhook(Head(list), payload) = "throws"
  THEN [invoked |-> <<Head(list)>>, handled |-> FALSE]
  ELSE LET rest == OfferAbort(Tail(list), payload)
       IN [invoked |-> <<Head(list)>> \o rest.invoked,
           handled |-> rest.handled]

\* The loop of the dispatcher over the plugins: the plugins invoked, and
\* whether one returned a message.  An exception of a plugin is caught and
\* the loop continues.
RECURSIVE Offer(_, _)
Offer(list, payload) ==
  IF list = <<>> THEN [invoked |-> <<>>, handled |-> FALSE]
  ELSE IF handleWebhook(Head(list), payload) = "message"
  THEN [invoked |-> <<Head(list)>>, handled |-> TRUE]
  ELSE LET rest == Offer(Tail(list), payload)
       IN [invoked |-> <<Head(list)>> \o rest.invoked,
           handled |-> rest.handled]

\* The two webhook routes.
GenericRoute == "/api/webhooks/:platform"
WhatsAppRoute == "/api/integrations/whatsapp/webhook"

Response(platform, body, status, message, invoked) ==
  <<[method |-> "POST", route |-> GenericRoute,
     platform |-> platform, body |-> body, status |-> status,
     message |-> message, invoked |-> invoked]>>

\* POST with a dispatch in which no plugin returned a message answered as
\* an error.
WebhookPOSTNoHandlerError(platform, body) ==
  /\ webhook' =
       IF platform = ""
       THEN Response(platform, body, 400, "Platform not specified", <<>>)
       ELSE IF body = <<>>
       THEN Response(platform, body, 500, "Failed to process webhook", <<>>)
       ELSE IF Len(getPluginsByPlatform(platform)) = 0
       THEN Response(platform, body, 404, "No plugins found for platform", <<>>)
       ELSE LET loop == Offer(getPluginsByPlatform(platform), body[1])
            IN IF loop.handled
               THEN Response(platform, body, 200,
                             "Webhook processed successfully", loop.invoked)
               ELSE Response(platform, body, 400,
                             "No handler found", loop.invoked)
  /\ UNCHANGED <<plugins, clock, latest>>

\* POST /api/webhooks/:platform
WebhookPOST(platform, body) ==
  /\ webhook' =
       IF platform = ""
       THEN Response(platform, body, 400, "Platform not specified", <<>>)
       ELSE IF body = <<>>
       THEN \* req.json() throws, the outer catch answers
            Response(platform, body, 500, "Failed to process webhook", <<>>)
       ELSE IF Len(getPluginsByPlatform(platform)) = 0
       THEN Response(platform, body, 404, "No plugins found for platform", <<>>)
       ELSE LET loop == Offer(getPluginsByPlatform(platform), body[1])
            IN IF loop.handled
               THEN Response(platform, body, 200,
                             "Webhook processed successfully", loop.invoked)
               ELSE Response(platform, body, 200,
                             "Webhook received but no handler found",
                             loop.invoked)
  /\ UNCHANGED <<plugins, clock, latest>>

(***************************************************************************)
(* GET /api/webhooks/:platform, the verification handshake.  The query     *)
(* carries hub.mode, hub.verify_token and hub.challenge; the handler       *)
(* passes it to the plugins unread.  No plugin class of the repository     *)
(* and not the ChatbotPlugin interface has a verifyWebhook member; for     *)
(* the other implementations the outcome of a verifyWebhook call is an     *)
(* input of the request:                                                   *)
(*   "absent"     the plugin has no verifyWebhook                          *)
(*   "falsy"      it returns null                                          *)
(*   "throws"     it throws                                                *)
(*   "challenge"  it returns the string hub.challenge                      *)
(*   "string"     it returns another non-empty string                      *)
(*   "json"       it returns an object                                     *)
(***************************************************************************)
Query(mode, token, challenge) ==
  [mode |-> mode, token |-> token, challenge |-> challenge]

Queries ==
  {Query("subscribe", "T1", <<"c", "1">>),
   Query("subscribe", "T2", <<"c", "1">>),
   Query("subscribe", "T1", <<"c", "2">>),
   Query("unsubscribe", "T1", <<"c", "1">>)}

Outcomes == {"absent", "falsy", "throws", "challenge", "string", "json"}

Object == [t |-> "object"]
Denied == Str(<<"n", "o">>)

\* The registered plugins of the platform that are not instances of the
\* plugin classes of the repository, by id.
Verifiers(platform) ==
  {plugins[i].id : i \in {k \in 1..Len(plugins) :
                            /\ plugins[k].plugin.platform = platform
                            /\ plugins[k].plugin \notin Plugins}}

\* plugin.verifyWebhook and the call of it: "absent", "throws", or the
\* value returned.
verifyWebhook(plugin, query, verdicts) ==
  LET outcome == IF plugin \in Plugins THEN "absent" ELSE verdicts[plugin.id]
  IN CASE outcome = "absent" -> [kind |-> "absent"]
       [] outcome = "throws" -> [kind |-> "throws"]
       [] outcome = "falsy" -> [kind |-> "value", value |-> Null]
       [] outcome = "challenge" ->
            [kind |-> "value", value |-> Str(query.challenge)]
       [] outcome = "string" -> [kind |-> "value", value |-> Denied]
       [] OTHER -> [kind |-> "value", value |-> Object]

\* if (verificationResponse)
Verified(result) ==
  /\ result.kind = "value"
  /\ result.value.t = "object" \/ Truthy(result.value)

\* The loop of GET with the answer taken from the last plugin that returns
\* a truthy value, not from the first.
RECURSIVE VerifyLast(_, _, _)
VerifyLast(list, query, verdicts) ==
  IF list = <<>> THEN [invoked |-> <<>>, answer |-> <<>>]
  ELSE LET result == verifyWebhook(Head(list), query, verdicts)
           rest == VerifyLast(Tail(list), query, verdicts)
       IN IF result.kind = "absent" THEN rest
          ELSE [invoked |-> <<Head(list)>> \o rest.invoked,
                answer |-> IF rest.answer # <<>> THEN rest.answer
                           ELSE IF Verified(result) THEN <<result.value>>
                           ELSE <<>>]

\* The loop of GET over the plugins: the plugins whose verifyWebhook was
\* called and the first truthy value returned, if any.  An exception of a
\* plugin is caught and the loop continues.
RECURSIVE Verify(_, _, _)
Verify(list, query, verdicts) ==
  IF list = <<>> THEN [invoked |-> <<>>, answer |-> <<>>]
  ELSE LET result == verifyWebhook(Head(list), query, verdicts)
       IN IF result.kind = "absent" THEN Verify(Tail(list), query, verdicts)
          ELSE IF Verified(result)
          THEN [invoked |-> <<Head(list)>>, answer |-> <<result.value>>]
          ELSE LET rest == Verify(Tail(list), query, verdicts)
               IN [invoked |-> <<Head(list)>> \o rest.invoked,
                   answer |-> rest.answer]

Verification(platform, query, verdicts, status, contentType, content, invoked) ==
  <<[method |-> "GET", route |-> GenericRoute,
     platform |-> platform, query |-> query, verdicts |-> verdicts,
     status |-> status, contentType |-> contentType, content |-> content,
     invoked |-> invoked]>>

Message(text) == [t |-> "message", text |-> text]

\* GET /api/webhooks/:platform
WebhookGET(platform, query, verdicts) ==
  /\ webhook' =
       IF platform = ""
       THEN Verification(platform, query, verdicts, 400, "application/json",
                         Message("Platform not specified"), <<>>)
       ELSE IF Len(getPluginsByPlatform(platform)) = 0
       THEN Verification(platform, query, verdicts, 404, "application/json",
                         Message("No plugins found for platform"), <<>>)
       ELSE LET loop == Verify(getPluginsByPlatform(platform), query, verdicts)
            IN IF loop.answer = <<>>
               THEN Verification(platform, query, verdicts, 400,
                      "application/json",
                      Message("No verification handler found for this platform"),
                      loop.invoked)
               ELSE IF IsString(loop.answer[1])
               THEN Verification(platform, query, verdicts, 200, "text/plain",
                                 loop.answer[1], loop.invoked)
               ELSE Verification(platform, query, verdicts, 200,
                                 "application/json", loop.answer[1],
                                 loop.invoked)
  /\ UNCHANGED <<plugins, clock, latest>>

(***************************************************************************)
(* POST /api/integrations/whatsapp/webhook, the route of the WhatsApp      *)
(* integration.  A request is its content type and its body, the body by   *)
(* the shape the handler reads:                                            *)
(*   "not-json"     req.json() throws                                      *)
(*   "null"         the JSON value null                                    *)
(*   "other"        an object whose object field is not                    *)
(*                  "whatsapp_business_account"                            *)
(*   "no-entry", "no-changes", "no-messages"  the field is absent or empty *)
(*   "no-value"     changes[0] has no value                                *)
(*   "text", "image"  a message of that type                               *)
(*   "text-no-body" a message of type text without a text field            *)
(***************************************************************************)
WhatsAppBodies ==
  {"not-json", "null", "other", "no-entry", "no-changes", "no-value",
   "no-messages", "text", "image", "text-no-body"}

\* The bodies on which the handler reads a property of null or undefined.
ThrowsTypeError(body) == body \in {"null", "no-value", "text-no-body"}

WhatsAppResponse(json, body, status, message) ==
  <<[method |-> "POST", route |-> WhatsAppRoute, platform |-> "whatsapp",
     json |-> json, body |-> body, status |-> status, message |-> message,
     invoked |-> <<>>]>>

WhatsAppWebhookPOST(json, body) ==
  /\ webhook' =
       IF ~json
       THEN WhatsAppResponse(json, body, 400, "Invalid content type")
       ELSE IF body = "not-json"
       THEN WhatsAppResponse(json, body, 400, "Invalid request body")
       ELSE IF ThrowsTypeError(body)
       THEN WhatsAppResponse(json, body, 500, "Internal server error")
       ELSE WhatsAppResponse(json, body, 200, "received")
  /\ UNCHANGED <<plugins, clock, latest>>

NextRegistry ==
  /\ \/ \E plugin \in PluginObjects : registerPlugin(plugin)
     \/ \E id \in PluginIds : unregisterPlugin(id)
     \/ \E platform \in Platforms, body \in Bodies : WebhookPOST(platform, body)
  /\ UNCHANGED <<lifecycleVars, storeVars, accountVars, agentVars,
               serviceVars>>

InitWebhooks ==
  /\ self = WhatsAppPlugin
  /\ InitLifecycle
  /\ InitRegistry
  /\ InitStore
  /\ InitAccounts
  /\ InitAgents
  /\ InitServices
  /\ useRealDatabase = FALSE
  /\ production = FALSE

SpecRegistry == InitWebhooks /\ [][NextRegistry]_vars

\* The registry with both webhook routes.
NextWebhooks ==
  /\ \/ \E plugin \in PluginObjects : registerPlugin(plugin)
     \/ \E id \in PluginIds : unregisterPlugin(id)
     \/ \E platform \in Platforms, body \in Bodies : WebhookPOST(platform, body)
     \/ \E platform \in Platforms, query \in Queries :
          \E verdicts \in [Verifiers(platform) -> Outcomes] :
            WebhookGET(platform, query, verdicts)
     \/ \E json \in BOOLEAN, body \in WhatsAppBodies :
          WhatsAppWebhookPOST(json, body)
  /\ UNCHANGED <<lifecycleVars, storeVars, accountVars, agentVars,
               serviceVars>>

SpecWebhooks == InitWebhooks /\ [][NextWebhooks]_vars

(***************************************************************************)
(* Authentication (auth-utils).  A request carries the user id that its    *)
(* cookies, bearer token or userId query parameter resolve to, or none.    *)
(***************************************************************************)
NoUser == ""
Users == {"default-user", "user-a"}
Credentials == Users \cup {NoUser}

\* An Authorization header with a Bearer token whose payload has no sub
\* claim or cannot be parsed, on a request without cookies.
BearerWithoutSub == "Bearer"

\* What a request can carry that resolves to no user id.
NoCredentials == {NoUser, BearerWithoutSub}

\* getAuthenticatedUserId with the default user in every environment mode.
getAuthenticatedUserIdAlwaysDefault(cred) ==
  IF cred = BearerWithoutSub THEN NoUser
  ELSE IF cred # NoUser THEN cred
  ELSE "default-user"

\* getAuthenticatedUserId: a Bearer token without a sub claim ends the
\* lookup with null; outside production a request without any credential is
\* the user 'default-user'.
getAuthenticatedUserId(cred) ==
  IF cred = BearerWithoutSub THEN NoUser
  ELSE IF cred # NoUser THEN cred
  ELSE IF production THEN NoUser ELSE "default-user"

\* The account part of requireAuth on the in-memory account store: the
\* first request of a user creates the account.
AccountsAfterAuth(userId) == accounts \cup {userId}

(***************************************************************************)
(* PluginDatabase (plugins.db, table plugin_configs).                      *)
(***************************************************************************)
\* JSON.stringify of a config object: a property whose value is undefined
\* is left out.
JSONstringify(object) ==
  [json |-> [k \in {key \in DOMAIN object : object[key] # Undefined} |->
               object[k]]]

\* The lookups return the row in a one-element sequence, or <<>> for null.
getPluginConfigById(id) ==
  IF \E row \in plugin_configs : row.id = id
  THEN <<CHOOSE row \in plugin_configs : row.id = id>>
  ELSE <<>>

\* A lookup that finds nothing.
getPluginConfigByPluginIdNone(pluginId, userId, agentId) == <<>>

getPluginConfigByPluginId(pluginId, userId, agentId) ==
  LET Hit(row) ==
        /\ row.plugin_id = pluginId
        /\ row.user_id = userId
        /\ row.agent_id = agentId
  IN IF \E row \in plugin_configs : Hit(row)
     THEN <<CHOOSE row \in plugin_configs : Hit(row)>>
     ELSE <<>>

\* A table without the UNIQUE constraint.
UniqueViolationNever(plugin_id, user_id, agent_id) == FALSE

\* UNIQUE(plugin_id, user_id, agent_id) of initSchema: whether an INSERT of
\* the key fails.
UniqueViolation(plugin_id, user_id, agent_id) ==
  \E row \in plugin_configs :
    /\ row.plugin_id = plugin_id
    /\ row.user_id = user_id
    /\ row.agent_id = agent_id

\* The row createPluginConfig inserts.
NewRow(values) ==
  [id |-> sqlite_sequence + 1, plugin_id |-> values.plugin_id,
   user_id |-> values.user_id, agent_id |-> values.agent_id,
   platform |-> values.platform, config |-> values.config,
   enabled |-> IF values.enabled THEN 1 ELSE 0,
   created_at |-> now, updated_at |-> now]

\* The row with the SET clause of updatePluginConfig applied: the handlers
\* pass config and enabled only.
UpdatedRow(row, updates) ==
  [row EXCEPT
     !.config = IF updates.config # <<>> THEN updates.config[1] ELSE @,
     !.enabled = IF updates.enabled # <<>>
                 THEN (IF updates.enabled[1] THEN 1 ELSE 0) ELSE @,
     !.updated_at = now]

\* UPDATE plugin_configs SET ..., without its WHERE clause.
RowsAfterUpdateEveryRow(id, updates) ==
  {UpdatedRow(row, updates) : row \in plugin_configs}

\* UPDATE plugin_configs SET ... WHERE id = ?
RowsAfterUpdate(id, updates) ==
  {IF row.id = id THEN UpdatedRow(row, updates) ELSE row : row \in plugin_configs}

\* DELETE FROM plugin_configs WHERE id = ?
RowsAfterDelete(id) == {row \in plugin_configs : row.id # id}

(***************************************************************************)
(* Requests of /api/plugins and /api/plugins/:id.                          *)
(***************************************************************************)
\* Configurations sent in request bodies: two valid ones, one without a
\* required field, one without a required field and with a number where
\* onValidateConfig calls match, and one of another plugin.
StoreConfigs ==
  LET good == GoodConfig(WhatsAppPlugin)
      required == configSchema(WhatsAppPlugin)[2].key
      checked == configSchema(WhatsAppPlugin)[1].key
  IN {good, OtherGoodConfig(WhatsAppPlugin),
      Without(good, required),
      Without(Override(good, checked, Num(12345)), required)}

LoadedPlugins == <<WordPressPlugin, WhatsAppPlugin, HtmlCssPlugin>>

\* body.enabled: <<>> when the body has no such property.
BodyEnabled == {<<>>}

PostBody(pluginId, agentId, c, e) ==
  <<[pluginId |-> pluginId, agentId |-> agentId, config |-> c, enabled |-> e]>>

\* Request bodies of POST: <<>> is a body that is not JSON; pluginId "" and
\* agentId 0 stand for a missing (falsy) field.
PostBodies ==
  {<<>>}
    \cup {PostBody("whatsapp", 1, c, e) :
            c \in StoreConfigs \cup {Undefined}, e \in BodyEnabled}
    \cup {PostBody("", 1, GoodConfig(WhatsAppPlugin), <<>>),
          PostBody("whatsapp", 0, GoodConfig(WhatsAppPlugin), <<>>),
          PostBody("unknown", 1, GoodConfig(WhatsAppPlugin), <<>>)}

\* Request bodies of PUT /api/plugins/:id
PutIdBodies ==
  {<<>>}
    \cup {<<[config |-> c, enabled |-> e]>> :
            c \in {OtherGoodConfig(WhatsAppPlugin),
                   Without(GoodConfig(WhatsAppPlugin),
                           configSchema(WhatsAppPlugin)[2].key),
                   Null},
            e \in BodyEnabled}

\* Request bodies of PUT /api/plugins: configId 0 stands for a missing one.
PutBodies ==
  {<<>>}
    \cup {<<[configId |-> i, config |-> b[1].config, enabled |-> b[1].enabled]>> :
            i \in 1..MaxRowId, b \in PutIdBodies \ {<<>>}}
    \cup {<<[configId |-> 0, config |-> Null, enabled |-> <<>>]>>}

\* parseInt of the last path segment: <<n>>, or <<>> for NaN.
PathIds == {<<>>} \cup {<<i>> : i \in 1..MaxRowId}

\* The local variables of a handler.  atStart is the id and the owner of the
\* row the request addresses, as the table holds it when the request arrives;
\* platform is plugin.platform of the plugin that POST has looked up; cred is
\* what the cookies and headers of the request resolve to.
Request(op, cred, userId, id, body, atStart) ==
  [pc |-> "start", op |-> op, cred |-> cred, userId |-> userId, id |-> id,
   body |-> body, atStart |-> atStart,
   updates |-> [config |-> <<>>, enabled |-> <<>>], platform |-> ""]

\* The elements of a sequence.
Range(seq) == {seq[i] : i \in 1..Len(seq)}

\* A handler that answers 401 has read neither the body nor the table.
Unauthenticated(req) == Request(req.op, req.cred, NoUser, 0, <<>>, {})

RowWithId(id) == {row \in plugin_configs : row.id = id}
RowWithKey(plugin_id, user_id, agent_id) ==
  {row \in plugin_configs :
     /\ row.plugin_id = plugin_id
     /\ row.user_id = user_id
     /\ row.agent_id = agent_id}
Addressed(rows) == {[id |-> row.id, user_id |-> row.user_id] : row \in rows}

\* The request in slot r ends with this response.
Answer(r, req, status, row) ==
  /\ requests' = [requests EXCEPT ![r] = Idle]
  /\ response' =
       <<[op |-> req.op, cred |-> req.cred, userId |-> req.userId,
          body |-> IF req.op = "POST" THEN req.body ELSE <<>>,
          atStart |-> req.atStart, status |-> status,
          configId |-> IF row = <<>> THEN 0 ELSE row[1].id,
          wrote |-> plugin_configs' # plugin_configs,
          inserted |-> sqlite_sequence' # sqlite_sequence]>>

\* The request in slot r is suspended at an await.
Suspend(r, req, pc) ==
  /\ requests' = [requests EXCEPT ![r] = [req EXCEPT !.pc = pc]]
  /\ response' = <<>>

\* A new request takes the first free slot.
Free(r) ==
  /\ requests[r] = Idle
  /\ \A q \in 1..(r - 1) : requests[q] # Idle

\* existingConfig.user_id !== userId, with the check left out.
NotOwnerNever(existingConfig, userId) == FALSE

\* existingConfig.user_id !== userId
NotOwner(existingConfig, userId) == existingConfig.user_id # userId

\* The part of both PUT handlers after the ownership check: validate
\* body.config if present, collect the updates, call updatePluginConfig.
PutUpdates(r, req, body, existingConfig) ==
  LET plugin == getPlugin(existingConfig.plugin_id)
      enabledUpdate == body.enabled
  IN IF body.config # Undefined
     THEN IF plugin = <<>>
          THEN Answer(r, req, 404, <<>>)
          ELSE LET validationResult == validateConfig(plugin[1], body.config)
               IN IF validationResult.threw
                  THEN Answer(r, req, 500, <<>>)
                  ELSE IF ~validationResult.valid
                  THEN Answer(r, req, 400, <<>>)
                  ELSE Suspend(r, [req EXCEPT !.updates =
                                     [config |-> <<JSONstringify(body.config)>>,
                                      enabled |-> enabledUpdate]],
                               "update-check")
     ELSE Suspend(r, [req EXCEPT !.updates =
                        [config |-> <<>>, enabled |-> enabledUpdate]],
                  "update-check")

\* POST /api/plugins up to the call of updatePluginConfig or
\* createPluginConfig
PluginsPOST(r, cred, body) ==
  LET userId == getAuthenticatedUserId(cred)
      req == Request("POST", cred, userId, 0, body,
                     IF body = <<>> THEN {}
                     ELSE Addressed(RowWithKey(body[1].pluginId, userId,
                                               body[1].agentId)))
  IN /\ Free(r)
     /\ UNCHANGED <<plugin_configs, sqlite_sequence, production>>
     /\ IF userId = NoUser
        THEN Answer(r, Unauthenticated(req), 401, <<>>) /\ UNCHANGED accounts
        ELSE /\ accounts' = AccountsAfterAuth(userId)
             /\ IF body = <<>>
                THEN Answer(r, req, 500, <<>>)
                ELSE IF \/ body[1].pluginId = ""
                        \/ body[1].agentId = 0
                        \/ body[1].config \in {Undefined, Null}
                THEN Answer(r, req, 400, <<>>)
                ELSE IF getPlugin(body[1].pluginId) = <<>>
                THEN Answer(r, req, 404, <<>>)
                ELSE LET plugin == getPlugin(body[1].pluginId)[1]
                         validationResult ==
                           validateConfig(plugin, body[1].config)
                         existingConfig ==
                           getPluginConfigByPluginId(
                             body[1].pluginId, userId, body[1].agentId)
                     IN IF validationResult.threw
                        THEN Answer(r, req, 500, <<>>)
                        ELSE IF ~validationResult.valid
                        THEN Answer(r, req, 400, <<>>)
                        ELSE IF existingConfig # <<>>
                        THEN Suspend(r,
                               [req EXCEPT
                                  !.id = existingConfig[1].id,
                                  !.updates =
                                    [config |->
                                       <<JSONstringify(body[1].config)>>,
                                     enabled |->
                                       IF body[1].enabled # <<>>
                                       THEN body[1].enabled
                                       ELSE <<existingConfig[1].enabled = 1>>]],
                               "update-check")
                        ELSE Suspend(r, [req EXCEPT !.platform = plugin.platform],
                                     "create")

\* PUT /api/plugins up to the call of updatePluginConfig
PluginsPUT(r, cred, body) ==
  LET userId == getAuthenticatedUserId(cred)
      configId == IF body = <<>> THEN 0 ELSE body[1].configId
      req == Request("PUT", cred, userId, configId, body,
                     Addressed(RowWithId(configId)))
      existingConfig == getPluginConfigById(configId)
  IN /\ Free(r)
     /\ UNCHANGED <<plugin_configs, sqlite_sequence, production>>
     /\ IF userId = NoUser
        THEN Answer(r, Unauthenticated(req), 401, <<>>) /\ UNCHANGED accounts
        ELSE /\ accounts' = AccountsAfterAuth(userId)
             /\ IF body = <<>>
                THEN Answer(r, req, 500, <<>>)
                ELSE IF configId = 0
                THEN Answer(r, req, 400, <<>>)
                ELSE IF existingConfig = <<>>
                THEN Answer(r, req, 404, <<>>)
                ELSE IF NotOwner(existingConfig[1], userId)
                THEN Answer(r, req, 403, <<>>)
                ELSE PutUpdates(r, req, body[1], existingConfig[1])

\* PUT /api/plugins/:id up to the call of updatePluginConfig
PluginPUT(r, cred, pathId, body) ==
  LET userId == getAuthenticatedUserId(cred)
      configId == IF pathId = <<>> THEN 0 ELSE pathId[1]
      req == Request("PUT-ID", cred, userId, configId, body,
                     IF pathId = <<>> THEN {}
                     ELSE Addressed(RowWithId(configId)))
      existingConfig == getPluginConfigById(configId)
  IN /\ Free(r)
     /\ UNCHANGED <<plugin_configs, sqlite_sequence, production>>
     /\ IF userId = NoUser
        THEN Answer(r, Unauthenticated(req), 401, <<>>) /\ UNCHANGED accounts
        ELSE /\ accounts' = AccountsAfterAuth(userId)
             /\ IF pathId = <<>>
                THEN Answer(r, req, 400, <<>>)
                ELSE IF existingConfig = <<>>
                THEN Answer(r, req, 404, <<>>)
                ELSE IF NotOwner(existingConfig[1], userId)
                THEN Answer(r, req, 403, <<>>)
                ELSE IF body = <<>>
                THEN Answer(r, req, 500, <<>>)
                ELSE PutUpdates(r, req, body[1], existingConfig[1])

\* DELETE /api/plugins/:id up to the call of deletePluginConfig
PluginDELETE(r, cred, pathId) ==
  LET userId == getAuthenticatedUserId(cred)
      configId == IF pathId = <<>> THEN 0 ELSE pathId[1]
      req == Request("DELETE", cred, userId, configId, <<>>,
                     IF pathId = <<>> THEN {}
                     ELSE Addressed(RowWithId(configId)))
      existingConfig == getPluginConfigById(configId)
  IN /\ Free(r)
     /\ UNCHANGED <<plugin_configs, sqlite_sequence, production>>
     /\ IF userId = NoUser
        THEN Answer(r, Unauthenticated(req), 401, <<>>) /\ UNCHANGED accounts
        ELSE /\ accounts' = AccountsAfterAuth(userId)
             /\ IF pathId = <<>>
                THEN Answer(r, req, 400, <<>>)
                ELSE IF existingConfig = <<>>
                THEN Answer(r, req, 404, <<>>)
                ELSE IF NotOwner(existingConfig[1], userId)
                THEN Answer(r, req, 403, <<>>)
                ELSE Suspend(r, req, "delete")

\* createPluginConfig and the rest of POST: the INSERT, which fails on the
\* UNIQUE constraint (caught, null, 500), and the read of the new row.
CreatePluginConfig(r) ==
  LET req == requests[r]
      body == req.body[1]
      row == NewRow([plugin_id |-> body.pluginId, user_id |-> req.userId,
                     agent_id |-> body.agentId,
                     platform |-> req.platform,
                     config |-> JSONstringify(body.config),
                     enabled |-> IF body.enabled # <<>>
                                 THEN body.enabled[1] ELSE FALSE])
  IN /\ req.pc = "create"
     /\ UNCHANGED <<production, accounts>>
     /\ IF UniqueViolation(body.pluginId, req.userId, body.agentId)
        THEN /\ UNCHANGED <<plugin_configs, sqlite_sequence>>
             /\ Answer(r, req, 500, <<>>)
        ELSE /\ sqlite_sequence < MaxRowId
             /\ plugin_configs' = plugin_configs \cup {row}
             /\ sqlite_sequence' = sqlite_sequence + 1
             /\ Answer(r, req, 200, <<row>>)

\* updatePluginConfig up to its UPDATE statement: the row is read first and
\* a missing row ends the request (null, 500).
UpdateCheck(r) ==
  LET req == requests[r]
  IN /\ req.pc = "update-check"
     /\ UNCHANGED <<plugin_configs, sqlite_sequence, production, accounts>>
     /\ IF getPluginConfigById(req.id) = <<>>
        THEN Answer(r, req, 500, <<>>)
        ELSE Suspend(r, req, "update-run")

\* The UPDATE statement of updatePluginConfig, the read of the row after it
\* and the rest of the handler.
UpdateRun(r) ==
  LET req == requests[r]
      after == {row \in RowsAfterUpdate(req.id, req.updates) : row.id = req.id}
  IN /\ req.pc = "update-run"
     /\ UNCHANGED <<sqlite_sequence, production, accounts>>
     /\ plugin_configs' = RowsAfterUpdate(req.id, req.updates)
     /\ IF after = {}
        THEN Answer(r, req, 500, <<>>)
        ELSE Answer(r, req, 200, <<CHOOSE row \in after : TRUE>>)

\* deletePluginConfig and the rest of DELETE: 500 when no row was deleted.
DeleteRun(r) ==
  LET req == requests[r]
  IN /\ req.pc = "delete"
     /\ UNCHANGED <<sqlite_sequence, production, accounts>>
     /\ plugin_configs' = RowsAfterDelete(req.id)
     /\ IF RowWithId(req.id) = {}
        THEN Answer(r, req, 500, <<>>)
        ELSE Answer(r, req, 200, <<>>)

Slots == 1..MaxRequests

NextStore ==
  /\ \/ \E r \in Slots, cred \in Credentials, body \in PostBodies :
          PluginsPOST(r, cred, body)
     \/ \E r \in Slots, cred \in Credentials, body \in PutBodies :
          PluginsPUT(r, cred, body)
     \/ \E r \in Slots, cred \in Credentials, pathId \in PathIds,
           body \in PutIdBodies : PluginPUT(r, cred, pathId, body)
     \/ \E r \in Slots, cred \in Credentials, pathId \in PathIds :
          PluginDELETE(r, cred, pathId)
     \/ \E r \in Slots : CreatePluginConfig(r)
     \/ \E r \in Slots : UpdateCheck(r)
     \/ \E r \in Slots : UpdateRun(r)
     \/ \E r \in Slots : DeleteRun(r)
  /\ UNCHANGED <<lifecycleVars, registryVars, accountVars, agentVars,
               serviceVars>>

\* The registry after plugin-registry-loader imported the plugin modules.
InitLoadedRegistry ==
  /\ plugins = [i \in 1..Len(LoadedPlugins) |->
                  [id |-> LoadedPlugins[i].id, plugin |-> LoadedPlugins[i],
                   registeredAt |-> i, insertedAt |-> i]]
  /\ clock = Len(LoadedPlugins)
  /\ latest = [id \in PluginIds |->
                 IF \E i \in 1..Len(LoadedPlugins) : LoadedPlugins[i].id = id
                 THEN <<CHOOSE p \in Plugins : p.id = id>> ELSE <<>>]
  /\ webhook = <<>>

\* The server runs with NODE_ENV = 'production'.
InitServer ==
  /\ self = WhatsAppPlugin
  /\ InitLifecycle
  /\ InitLoadedRegistry
  /\ InitStore
  /\ InitAccounts
  /\ InitAgents
  /\ InitServices
  /\ useRealDatabase = FALSE
  /\ production = TRUE

SpecStore == InitServer /\ [][NextStore]_vars

(***************************************************************************)
(* The plugin configuration routes together with the registry: requests of *)
(* one user for the WhatsApp and the WordPress plugin, and registerPlugin  *)
(* and unregisterPlugin calls for the two.                                 *)
(***************************************************************************)
IntegrityPlugins == {WhatsAppPlugin, WordPressPlugin}

IntegrityPostBodies ==
  {PostBody(plugin.id, 1, GoodConfig(plugin), <<>>) : plugin \in IntegrityPlugins}

IntegrityPutBodies ==
  {<<[config |-> OtherGoodConfig(WhatsAppPlugin), enabled |-> <<>>]>>}

NextIntegrity ==
  /\ \/ /\ \/ \E r \in Slots, body \in IntegrityPostBodies :
                PluginsPOST(r, "user-a", body)
           \/ \E r \in Slots, i \in 1..MaxRowId, body \in IntegrityPutBodies :
                PluginPUT(r, "user-a", <<i>>, body)
           \/ \E r \in Slots, i \in 1..MaxRowId :
                PluginDELETE(r, "user-a", <<i>>)
           \/ \E r \in Slots : CreatePluginConfig(r)
           \/ \E r \in Slots : UpdateCheck(r)
           \/ \E r \in Slots : UpdateRun(r)
           \/ \E r \in Slots : DeleteRun(r)
        /\ UNCHANGED registryVars
     \/ /\ \/ \E plugin \in IntegrityPlugins : registerPlugin(plugin)
           \/ \E plugin \in IntegrityPlugins : unregisterPlugin(plugin.id)
        /\ UNCHANGED storeVars
  /\ UNCHANGED <<lifecycleVars, accountVars, agentVars,
               serviceVars>>

\* The server before any plugin module has registered its plugin.
InitIntegrity ==
  /\ self = WhatsAppPlugin
  /\ InitLifecycle
  /\ InitRegistry
  /\ InitStore
  /\ InitAccounts
  /\ InitAgents
  /\ InitServices
  /\ useRealDatabase = FALSE
  /\ production = TRUE

SpecIntegrity == InitIntegrity /\ [][NextIntegrity]_vars

(***************************************************************************)
(* The two PUT handlers of the plugin configuration routes while time      *)
(* passes: two users create WhatsApp configurations and change config,     *)
(* enabled, both or neither of them.                                       *)
(***************************************************************************)
UpdateUsers == {"default-user", "user-a"}

\* One request is in flight at a time.
UpdateSlots == {1}

\* Bodies of PUT /api/plugins/:id with and without config and enabled.
UpdatePutIdBodies ==
  {<<[config |-> c, enabled |-> e]>> :
     c \in {Undefined, OtherGoodConfig(WhatsAppPlugin)},
     e \in {<<>>, <<TRUE>>, <<FALSE>>}}

\* Bodies of PUT /api/plugins
UpdatePutBodies ==
  {<<[configId |-> i, config |-> b[1].config, enabled |-> b[1].enabled]>> :
     i \in 1..MaxRowId, b \in UpdatePutIdBodies}

\* new Date() gives a later reading.
Elapse ==
  /\ now < MaxTime
  /\ now' = now + 1

NextUpdates ==
  /\ \/ /\ \/ \E r \in UpdateSlots, cred \in UpdateUsers :
                PluginsPOST(r, cred,
                            PostBody("whatsapp", 1,
                                     GoodConfig(WhatsAppPlugin), <<>>))
           \/ \E r \in UpdateSlots, cred \in UpdateUsers, body \in UpdatePutBodies :
                PluginsPUT(r, cred, body)
           \/ \E r \in UpdateSlots, cred \in UpdateUsers, i \in 1..MaxRowId,
                 body \in UpdatePutIdBodies :
                PluginPUT(r, cred, <<i>>, body)
           \/ \E r \in UpdateSlots : CreatePluginConfig(r)
           \/ \E r \in UpdateSlots : UpdateCheck(r)
           \/ \E r \in UpdateSlots : UpdateRun(r)
        /\ UNCHANGED now
     \/ /\ Elapse
        /\ UNCHANGED storeVars
  /\ UNCHANGED <<lifecycleVars, registryVars, useRealDatabase, accountDb,
               calls, agentVars, serviceVars>>

SpecUpdates == InitServer /\ [][NextUpdates]_vars

(***************************************************************************)
(* Agents (agents.db, table agents, and the /api/agents routes).  An agent *)
(* row is (id, userId, name); the other columns are left out.  A handler   *)
(* of these routes is one step.                                            *)
(***************************************************************************)
MaxAgentId == 2

\* The texts of the agent routes and of agent-db.
sBot == <<"B", "o", "t">>
sMax == <<"M", "a", "x">>
sNewAgent == <<"N", "e", "w", " ", "A", "g", "e", "n", "t">>
sAIAssistant == <<"A", "I", " ", "A", "s", "s", "i", "s", "t", "a", "n", "t">>
sHelpful == <<"h", "e", "l", "p", "f", "u", "l", " ", "A", "I", " ", "a", "s", "s",
      "i", "s", "t", "a", "n", "t">>
sPrompt == <<"H", "i">>
sDefaultPrompt == <<"Y", "o", "u", " ", "a", "r", "e", " ", "a", " ", "h", "e", "l", "p",
      "f", "u", "l", " ", "A", "I", " ", "a", "s", "s", "i", "s", "t", "a",
      "n", "t", ".">>
sTopColor == <<"#", "1", "f", "2", "9", "3", "7">>
sAccentColor == <<"#", "3", "B", "8", "2", "F", "6">>
sBackgroundColor == <<"#", "F", "3", "F", "4", "F", "6">>
sBlack == <<"#", "0", "0", "0">>

\* a || b
Or(a, b) == IF Truthy(a) THEN a ELSE b

\* text.includes(part)
Includes(text, part) ==
  \E i \in 0..(Len(text) - Len(part)) : SubSeq(text, i + 1, i + Len(part)) = part

\* The fields of a request body that are modelled, and the columns they are
\* stored in; description, isActive, avatarUrl and workflowId are left out
\* and taken as present in every body.
AgentFields ==
  {"name", "chatbotName", "systemPrompt", "topColor", "accentColor",
   "backgroundColor"}

AgentBody(name, chatbotName, systemPrompt, topColor, accentColor, backgroundColor) ==
  <<[name |-> name, chatbotName |-> chatbotName,
     systemPrompt |-> systemPrompt, topColor |-> topColor,
     accentColor |-> accentColor, backgroundColor |-> backgroundColor]>>

\* {name: "Bot"}
OnlyName ==
  AgentBody(Str(sBot), Undefined, Undefined, Undefined, Undefined, Undefined)

\* A body without name.
NoName ==
  AgentBody(Undefined, Undefined, Undefined, Undefined, Undefined, Undefined)

\* A body that specifies every field.
EveryField ==
  AgentBody(Str(sBot), Str(sMax), Str(sPrompt), Str(sBlack), Str(sBlack),
            Str(sBlack))

AgentNames == {Undefined, Str(sBot)}

\* The JSON body of an agent request, or <<>> for a body that req.json()
\* rejects.
AgentBodies == {<<>>, NoName, OnlyName}

\* parseInt of the last path segment: <<>> is NaN.
AgentPathIds == {<<>>} \cup {<<i>> : i \in 1..MaxAgentId}

\* agentDb.getById
getById(pathId) ==
  IF pathId = <<>> THEN {}
  ELSE {agent \in agents : agent.id = pathId[1]}

\* The response of an agent or of a read-only plugin handler.
Respond(op, cred, userId, status) ==
  response' = <<[op |-> op, cred |-> cred, userId |-> userId,
                 status |-> status]>>

\* The response of a handler that addresses one agent: pathId is the id of
\* the request and agent the agent of the response body; owners is the
\* userId of the addressed agent when the request arrives.
RespondAgent(op, cred, userId, pathId, status, agent) ==
  response' = <<[op |-> op, cred |-> cred, userId |-> userId,
                 pathId |-> pathId, status |-> status, agent |-> agent,
                 owners |-> {a.userId : a \in getById(pathId)},
                 wrote |-> agents' # agents]>>

\* requireAuth and getAuthenticatedUserId at the head of a handler: answers
\* 401, or registers the account of the user and goes on with the handler.
Authenticated(op, cred, handler(_)) ==
  LET userId == getAuthenticatedUserId(cred)
  IN /\ UNCHANGED <<production, requests>>
     /\ IF userId = NoUser
        THEN /\ Respond(op, cred, NoUser, 401)
             /\ UNCHANGED <<accounts, agents, agentSeq, plugin_configs,
                            sqlite_sequence>>
        ELSE /\ accounts' = AccountsAfterAuth(userId)
             /\ handler(userId)

\* The data POST /api/agents hands to agentDb.create.
NewAgentData(userId, body) ==
  [name |-> body.name, userId |-> userId,
   chatbot_name |-> Or(body.chatbotName, body.name),
   system_prompt |-> body.systemPrompt, top_color |-> body.topColor,
   accent_color |-> body.accentColor,
   background_color |-> body.backgroundColor]

\* The row agentDb.create inserts: the INSERT takes the next AUTOINCREMENT
\* id.  unspecified is history, not a column: the fields the creating
\* request did not specify, as long as no update has written the row.
NewAgent(id, data, unspecified) ==
  [id |-> id, userId |-> data.userId,
   name |-> Or(data.name, Str(sNewAgent)),
   chatbot_name |-> Or(Or(data.chatbot_name, data.name), Str(sAIAssistant)),
   system_prompt |-> Or(data.system_prompt, Str(sDefaultPrompt)),
   top_color |-> Or(data.top_color, Str(sTopColor)),
   accent_color |-> Or(data.accent_color, Str(sAccentColor)),
   background_color |-> Or(data.background_color, Str(sBackgroundColor)),
   unspecified |-> unspecified]

Unspecified(body) == {field \in AgentFields : body[field] = Undefined}

\* agentDb.create
create(data, unspecified) ==
  /\ agentSeq < MaxAgentId
  /\ agentSeq' = agentSeq + 1
  /\ agents' = agents \cup {NewAgent(agentSeq + 1, data, unspecified)}

\* The data both PUT handlers hand to agentDb.update.
UpdateData(body) ==
  [name |-> body.name, chatbot_name |-> body.chatbotName,
   system_prompt |-> body.systemPrompt, top_color |-> body.topColor,
   accent_color |-> body.accentColor,
   background_color |-> body.backgroundColor]

\* stmt.run(...params) throws for a parameter that is undefined.
Bindable(data) == \A key \in DOMAIN data : data[key] # Undefined

Updated(agent, data) ==
  [agent EXCEPT !.name = data.name, !.chatbot_name = data.chatbot_name,
                !.system_prompt = data.system_prompt,
                !.top_color = data.top_color,
                !.accent_color = data.accent_color,
                !.background_color = data.background_color,
                !.unspecified = {}]

\* agentDb.update on an agent that exists and with data that can be bound:
\* sets every column of data.
update(pathId, data) ==
  agents' = {IF agent \in getById(pathId) THEN Updated(agent, data)
             ELSE agent : agent \in agents}

\* agentDb.remove
remove(pathId) == agents' = agents \ getById(pathId)

\* temperature: 0.7, in tenths.
Temperature == [t |-> "number", tenths |-> 7]

\* transformedAgent of GET /api/agents/:id with two columns exchanged.
transformedAgentExchanged(agent) ==
  [id |-> agent.id, name |-> agent.name,
   chatbotName |-> Or(agent.chatbot_name, agent.name),
   systemPrompt |-> Or(agent.system_prompt, Str(sDefaultPrompt)),
   topColor |-> Or(agent.background_color, Str(sBackgroundColor)),
   accentColor |-> Or(agent.accent_color, Str(sAccentColor)),
   backgroundColor |-> Or(agent.top_color, Str(sTopColor)),
   temperature |-> Temperature,
   createdBy |-> agent.userId]

\* transformedAgent of GET /api/agents/:id
transformedAgent(agent) ==
  [id |-> agent.id, name |-> agent.name,
   chatbotName |-> Or(agent.chatbot_name, agent.name),
   systemPrompt |-> Or(agent.system_prompt, Str(sDefaultPrompt)),
   topColor |-> Or(agent.top_color, Str(sTopColor)),
   accentColor |-> Or(agent.accent_color, Str(sAccentColor)),
   backgroundColor |-> Or(agent.background_color, Str(sBackgroundColor)),
   temperature |-> Temperature,
   createdBy |-> agent.userId]

\* GET /api/agents: a query that fails is answered with an empty list.
AgentsGET(cred, fails) ==
  LET handler(userId) ==
        /\ UNCHANGED <<agents, agentSeq, plugin_configs, sqlite_sequence>>
        /\ response' = <<[op |-> "AGENTS-GET", cred |-> cred,
                          userId |-> userId, status |-> 200,
                          failed |-> fails,
                          agents |-> IF fails THEN {}
                                     ELSE {agent \in agents :
                                             agent.userId = userId}]>>
  IN Authenticated("AGENTS-GET", cred, handler)

\* POST /api/agents
AgentsPOST(cred, body) ==
  LET handler(userId) ==
        /\ UNCHANGED <<plugin_configs, sqlite_sequence>>
        /\ IF body = <<>>
           THEN /\ UNCHANGED <<agents, agentSeq>>
                /\ Respond("AGENTS-POST", cred, userId, 500)
           ELSE IF ~Truthy(body[1].name)
           THEN /\ UNCHANGED <<agents, agentSeq>>
                /\ Respond("AGENTS-POST", cred, userId, 400)
           ELSE /\ create(NewAgentData(userId, body[1]), Unspecified(body[1]))
                /\ RespondAgent("AGENTS-POST", cred, userId, <<agentSeq + 1>>,
                                201, <<>>)
  IN Authenticated("AGENTS-POST", cred, handler)

\* PUT /api/agents ("PUT /api/agents/:id - Update an existing agent"): the
\* id is parsed from the last path segment and the agent is updated without
\* a look at its userId.
AgentsPUT(cred, pathId, body) ==
  LET handler(userId) ==
        /\ UNCHANGED <<agentSeq, plugin_configs, sqlite_sequence>>
        /\ IF body = <<>>
           THEN /\ UNCHANGED agents
                /\ RespondAgent("AGENTS-PUT", cred, userId, pathId, 500, <<>>)
           ELSE IF getById(pathId) = {}
           THEN /\ UNCHANGED agents
                /\ RespondAgent("AGENTS-PUT", cred, userId, pathId, 404, <<>>)
           ELSE IF ~Bindable(UpdateData(body[1]))
           THEN /\ UNCHANGED agents
                /\ RespondAgent("AGENTS-PUT", cred, userId, pathId, 500, <<>>)
           ELSE /\ update(pathId, UpdateData(body[1]))
                /\ RespondAgent("AGENTS-PUT", cred, userId, pathId, 200, <<>>)
  IN Authenticated("AGENTS-PUT", cred, handler)

\* existingAgent.userId !== userId, with the check left out.
NotAgentOwnerNever(agent, userId) == FALSE

\* existingAgent.userId !== userId
NotAgentOwner(agent, userId) == agent.userId # userId

\* GET /api/agents/:id
AgentGET(cred, pathId) ==
  LET handler(userId) ==
        /\ UNCHANGED <<agents, agentSeq, plugin_configs, sqlite_sequence>>
        /\ IF getById(pathId) = {}
           THEN RespondAgent("AGENT-GET", cred, userId, pathId, 404, <<>>)
           ELSE IF \E agent \in getById(pathId) : NotAgentOwner(agent, userId)
           THEN RespondAgent("AGENT-GET", cred, userId, pathId, 403, <<>>)
           ELSE RespondAgent("AGENT-GET", cred, userId, pathId, 200,
                  <<transformedAgent(CHOOSE agent \in getById(pathId) : TRUE)>>)
  IN Authenticated("AGENT-GET", cred, handler)

\* PUT /api/agents/:id
AgentPUT(cred, pathId, body) ==
  LET handler(userId) ==
        /\ UNCHANGED <<agentSeq, plugin_configs, sqlite_sequence>>
        /\ IF getById(pathId) = {}
           THEN /\ UNCHANGED agents
                /\ RespondAgent("AGENT-PUT", cred, userId, pathId, 404, <<>>)
           ELSE IF \E agent \in getById(pathId) : NotAgentOwner(agent, userId)
           THEN /\ UNCHANGED agents
                /\ RespondAgent("AGENT-PUT", cred, userId, pathId, 403, <<>>)
           ELSE IF body = <<>> \/ ~Bindable(UpdateData(body[1]))
           THEN /\ UNCHANGED agents
                /\ RespondAgent("AGENT-PUT", cred, userId, pathId, 500, <<>>)
           ELSE /\ update(pathId, UpdateData(body[1]))
                /\ RespondAgent("AGENT-PUT", cred, userId, pathId, 200, <<>>)
  IN Authenticated("AGENT-PUT", cred, handler)

\* DELETE /api/agents/:id
AgentDELETE(cred, pathId) ==
  LET handler(userId) ==
        /\ UNCHANGED <<agentSeq, plugin_configs, sqlite_sequence>>
        /\ IF getById(pathId) = {}
           THEN /\ UNCHANGED agents
                /\ RespondAgent("AGENT-DELETE", cred, userId, pathId, 404, <<>>)
           ELSE IF \E agent \in getById(pathId) : NotAgentOwner(agent, userId)
           THEN /\ UNCHANGED agents
                /\ RespondAgent("AGENT-DELETE", cred, userId, pathId, 403, <<>>)
           ELSE /\ remove(pathId)
                /\ RespondAgent("AGENT-DELETE", cred, userId, pathId, 200, <<>>)
  IN Authenticated("AGENT-DELETE", cred, handler)

\* The response of a handler that reads plugin_configs: failed tells that
\* its SELECT statement failed.
RespondRead(op, cred, userId, status, failed) ==
  response' = <<[op |-> op, cred |-> cred, userId |-> userId,
                 status |-> status, failed |-> failed]>>

\* GET /api/plugins: the list of the registry merged with the rows of the
\* user; getPluginConfigs returns no row when its statement fails.
PluginsGET(cred, fails) ==
  LET handler(userId) ==
        /\ UNCHANGED <<agents, agentSeq, plugin_configs, sqlite_sequence>>
        /\ RespondRead("GET", cred, userId, 200, fails)
  IN Authenticated("GET", cred, handler)

\* GET /api/plugins/:id; getPluginConfigById returns null when its statement
\* fails.
PluginGET(cred, pathId, fails) ==
  LET configId == IF pathId = <<>> THEN 0 ELSE pathId[1]
      pluginConfig == IF fails THEN <<>> ELSE getPluginConfigById(configId)
      handler(userId) ==
        /\ UNCHANGED <<agents, agentSeq, plugin_configs, sqlite_sequence>>
        /\ IF pathId = <<>>
           THEN RespondRead("GET-ID", cred, userId, 400, FALSE)
           ELSE IF pluginConfig = <<>>
           THEN RespondRead("GET-ID", cred, userId, 404, fails)
           ELSE IF pluginConfig[1].user_id # userId
           THEN RespondRead("GET-ID", cred, userId, 403, fails)
           ELSE IF getPlugin(pluginConfig[1].plugin_id) = <<>>
           THEN RespondRead("GET-ID", cred, userId, 500, fails)
           ELSE RespondRead("GET-ID", cred, userId, 200, fails)
  IN Authenticated("GET-ID", cred, handler)

\* One request for a plugin configuration is in flight at a time.
AuthSlots == {1}

\* The agents that are created in the authentication runs.
MaxAuthAgents == 1

\* What the requests of the authentication runs carry: nothing, a Bearer
\* token without sub claim, or the cookie of a user.
AuthCredentials == NoCredentials \cup {"user-a"}

AuthPostBodies ==
  {PostBody(WhatsAppPlugin.id, 1, GoodConfig(WhatsAppPlugin), <<>>)}

AuthPutBodies ==
  {<<[config |-> OtherGoodConfig(WhatsAppPlugin), enabled |-> <<>>]>>}

AuthPutCollectionBodies ==
  {<<[configId |-> 1, config |-> OtherGoodConfig(WhatsAppPlugin),
      enabled |-> <<>>]>>}

\* Every handler of the /api/plugins and /api/agents routes, in either
\* environment mode.
NextAuth ==
  /\ \/ /\ \/ \E r \in AuthSlots, cred \in AuthCredentials,
                body \in AuthPostBodies : PluginsPOST(r, cred, body)
           \/ \E r \in AuthSlots, cred \in AuthCredentials,
                body \in AuthPutCollectionBodies : PluginsPUT(r, cred, body)
           \/ \E r \in AuthSlots, cred \in AuthCredentials, body \in AuthPutBodies :
                PluginPUT(r, cred, <<1>>, body)
           \/ \E r \in AuthSlots, cred \in AuthCredentials :
                PluginDELETE(r, cred, <<1>>)
           \/ \E r \in AuthSlots : CreatePluginConfig(r)
           \/ \E r \in AuthSlots : UpdateCheck(r)
           \/ \E r \in AuthSlots : UpdateRun(r)
           \/ \E r \in AuthSlots : DeleteRun(r)
        /\ UNCHANGED agentVars
     \/ \E cred \in AuthCredentials : PluginsGET(cred, FALSE)
     \/ \E cred \in AuthCredentials : PluginGET(cred, <<1>>, FALSE)
     \/ \E cred \in AuthCredentials : AgentsGET(cred, FALSE)
     \/ \E cred \in AuthCredentials, body \in AgentBodies :
          AgentsPOST(cred, body)
     \/ \E cred \in AuthCredentials, pathId \in AgentPathIds,
          body \in AgentBodies : AgentsPUT(cred, pathId, body)
     \/ \E cred \in AuthCredentials, pathId \in AgentPathIds :
          AgentGET(cred, pathId)
     \/ \E cred \in AuthCredentials, pathId \in AgentPathIds,
          body \in AgentBodies : AgentPUT(cred, pathId, body)
     \/ \E cred \in AuthCredentials, pathId \in AgentPathIds :
          AgentDELETE(cred, pathId)
  /\ agentSeq' <= MaxAuthAgents
  /\ UNCHANGED <<lifecycleVars, registryVars, accountVars,
               serviceVars>>

\* The server in either environment mode.
InitAuth ==
  /\ self = WhatsAppPlugin
  /\ InitLifecycle
  /\ InitLoadedRegistry
  /\ InitStore
  /\ InitAccounts
  /\ InitAgents
  /\ InitServices
  /\ useRealDatabase = FALSE

SpecAuth == InitAuth /\ [][NextAuth]_vars

(***************************************************************************)
(* The agent routes with two users, in production.                         *)
(***************************************************************************)
AgentUsers == {"user-a", "user-b"}

AgentPostBodies == {<<>>, NoName, OnlyName, EveryField}

AgentPutBodies == {<<>>, OnlyName, EveryField}

NextAgents ==
  /\ \/ \E cred \in AgentUsers, fails \in BOOLEAN : AgentsGET(cred, fails)
     \/ \E cred \in AgentUsers, body \in AgentPostBodies :
          AgentsPOST(cred, body)
     \/ \E cred \in AgentUsers, pathId \in AgentPathIds,
          body \in AgentPutBodies : AgentsPUT(cred, pathId, body)
     \/ \E cred \in AgentUsers, pathId \in AgentPathIds :
          AgentGET(cred, pathId)
     \/ \E cred \in AgentUsers, pathId \in AgentPathIds,
          body \in AgentPutBodies : AgentPUT(cred, pathId, body)
     \/ \E cred \in AgentUsers, pathId \in AgentPathIds :
          AgentDELETE(cred, pathId)
  /\ UNCHANGED <<lifecycleVars, registryVars, accountVars,
               serviceVars>>

SpecAgents == InitServer /\ [][NextAgents]_vars

(***************************************************************************)
(* The handlers that read the stores, with statements that can fail, next  *)
(* to the requests of one user that fill the stores.                       *)
(***************************************************************************)
NextErrors ==
  /\ \/ /\ \/ \E body \in AuthPostBodies : PluginsPOST(1, "user-a", body)
           \/ \E body \in AuthPutBodies : PluginPUT(1, "user-a", <<1>>, body)
           \/ PluginDELETE(1, "user-a", <<1>>)
           \/ CreatePluginConfig(1)
           \/ UpdateCheck(1)
           \/ UpdateRun(1)
           \/ DeleteRun(1)
        /\ UNCHANGED agentVars
     \/ \E cred \in AgentUsers, fails \in BOOLEAN : PluginsGET(cred, fails)
     \/ \E cred \in AgentUsers, pathId \in PathIds, fails \in BOOLEAN :
          PluginGET(cred, pathId, fails)
     \/ \E cred \in AgentUsers, fails \in BOOLEAN : AgentsGET(cred, fails)
     \/ \E cred \in AgentUsers : AgentsPOST(cred, OnlyName)
  /\ UNCHANGED <<lifecycleVars, registryVars, accountVars,
               serviceVars>>

SpecErrors == InitServer /\ [][NextErrors]_vars

(***************************************************************************)
(* LlmService (llm.ts).  A generateChatCompletion call is a process: it    *)
(* reads the environment, makes its fetch attempts with a backoff between  *)
(* them, and returns or throws.  A message is (role, content); the content *)
(* is a JavaScript value, since the chat route passes on what the request  *)
(* body holds.                                                             *)
(***************************************************************************)
MaxMessages == 2

\* const maxRetries = 2
maxRetries == 2

sHi == <<"h", "i">>
sHello == <<"h", "e", "l", "l", "o">>
sHelp == <<"h", "e", "l", "p">>
sThis == <<"t", "h", "i", "s">>
sLater == <<"l", "a", "t", "e", "r">>

\* What a request body can give as the content of a user message.
Contents == {Str(sHello), Str(sThis), Str(sHelp), Str(sLater), Num(5)}

Messages ==
  [role : {"user"}, content : Contents]
    \cup {[role |-> "assistant", content |-> Str(sHello)]}

MessageLists == UNION {[1..n -> Messages] : n \in 1..MaxMessages}

\* The texts generateFallbackResponse puts together.
FallbackBase ==
  "I'm currently operating in fallback mode and cannot access my AI provider."
FallbackHello ==
  " Hello! I'm here to help, but my capabilities are limited right now."
FallbackHelp ==
  " I'd like to help, but my capabilities are limited in fallback mode."
FallbackLater ==
  " Please try again later when my connection to the AI service is restored."
Trouble ==
  "I'm having trouble understanding the response from my AI provider. Please try again later."

\* messages.findLast(m => m.role === 'user')?.content || ''
LastUserMessage(messages) ==
  LET users == {i \in 1..Len(messages) : messages[i].role = "user"}
  IN IF users = {} THEN Str(<<>>)
     ELSE LET last == CHOOSE i \in users : \A j \in users : j <= i
          IN Or(messages[last].content, Str(<<>>))

\* generateFallbackResponse: lastUserMessage.includes is a TypeError when
\* the content is not a string.
generateFallbackResponse(messages) ==
  LET lastUserMessage == LastUserMessage(messages)
  IN IF ~IsString(lastUserMessage)
     THEN [kind |-> "threw"]
     ELSE [kind |-> "returned",
           response |->
             <<FallbackBase,
               IF \/ Includes(lastUserMessage.s, sHello)
                  \/ Includes(lastUserMessage.s, sHi)
               THEN FallbackHello
               ELSE IF Includes(lastUserMessage.s, sHelp)
               THEN FallbackHelp
               ELSE FallbackLater>>,
           model |-> "fallback-model"]

\* The call ends with this result after these fetch attempts.  failed tells
\* that the call to the model failed (the attempts threw, the status was
\* not OK, or the body could not be parsed).
Ended(call, attempts, failed, result) ==
  llm' = [pc |-> "done", messages |-> call.messages, attempts |-> attempts,
          failed |-> failed, result |-> result]

\* The catch block of generateChatCompletion.
Caught(call, attempts, failed) ==
  Ended(call, attempts, failed, generateFallbackResponse(call.messages))

\* generateChatCompletion up to the first fetch.
generateChatCompletion(messages, fallbackMode, apiKey) ==
  LET call == [messages |-> messages]
  IN /\ llm.pc \in {"idle", "done"}
     /\ IF fallbackMode \/ ~apiKey
        THEN IF generateFallbackResponse(messages).kind = "threw"
             THEN Caught(call, <<>>, FALSE)
             ELSE Ended(call, <<>>, FALSE, generateFallbackResponse(messages))
        ELSE llm' = [pc |-> "fetch", messages |-> messages, retryCount |-> 0,
                     attempts |-> <<>>]

\* What a fetch attempt and the reading of its response come to: fetch
\* throws (also when the 30 s timer aborts it), the status is not OK, the
\* body is not JSON, the body has no text, or it has one.
Attempts == {"throws", "not-ok", "unparsable", "empty", "text"}

\* One pass of the retry loop that retries after every attempt that failed.
FetchRetryingNotOk(outcome) ==
  LET attempts == Append(llm.attempts, outcome)
      retryCount == llm.retryCount + 1
  IN /\ llm.pc = "fetch"
     /\ IF outcome \in {"throws", "not-ok"}
        THEN IF retryCount > maxRetries
             THEN Caught(llm, attempts, TRUE)
             ELSE llm' = [llm EXCEPT !.pc = "backoff",
                                     !.retryCount = retryCount,
                                     !.attempts = attempts]
        ELSE IF outcome = "unparsable"
        THEN Caught(llm, attempts, TRUE)
        ELSE Ended(llm, attempts, FALSE,
                   [kind |-> "returned",
                    response |-> <<IF outcome = "empty" THEN Trouble
                                   ELSE "text">>,
                    model |-> "model"])

\* One pass of the retry loop, and what follows the loop when it is left.
Fetch(outcome) ==
  LET attempts == Append(llm.attempts, outcome)
      retryCount == llm.retryCount + 1
  IN /\ llm.pc = "fetch"
     /\ IF outcome = "throws"
        THEN IF retryCount > maxRetries
             THEN Caught(llm, attempts, TRUE)
             ELSE llm' = [llm EXCEPT !.pc = "backoff",
                                     !.retryCount = retryCount,
                                     !.attempts = attempts]
        ELSE IF outcome \in {"not-ok", "unparsable"}
        THEN Caught(llm, attempts, TRUE)
        ELSE Ended(llm, attempts, FALSE,
                   [kind |-> "returned",
                    response |-> <<IF outcome = "empty" THEN Trouble
                                   ELSE "text">>,
                    model |-> "model"])

\* The timer of the backoff fires.
Backoff ==
  /\ llm.pc = "backoff"
  /\ llm' = [llm EXCEPT !.pc = "fetch"]

Attempt == \E outcome \in Attempts : Fetch(outcome)

NextLlm ==
  /\ \/ \E messages \in MessageLists, fallbackMode \in BOOLEAN,
          apiKey \in BOOLEAN :
          generateChatCompletion(messages, fallbackMode, apiKey)
     \/ Attempt
     \/ Backoff
  /\ UNCHANGED <<dbAgents, sessions, chats, sessionLog, creating>>
  /\ UNCHANGED <<lifecycleVars, registryVars, storeVars, accountVars,
                 agentVars>>

SpecLlm == InitServer /\ [][NextLlm]_vars

\* A fetch attempt ends and a backoff timer fires.
SpecLlmFair == SpecLlm /\ WF_llm(Attempt) /\ WF_llm(Backoff)

(***************************************************************************)
(* The in-memory agent collection (db.agents) next to the agents table.    *)
(* An element of db.agents is its id and its userId.                       *)
(***************************************************************************)
\* Bound on the length of db.agents.
MaxDbAgents == 3

\* create('agents', data): id is the length of the collection plus one.
collectionCreate(userId) ==
  /\ Len(dbAgents) < MaxDbAgents
  /\ dbAgents' = Append(dbAgents, [id |-> Len(dbAgents) + 1, userId |-> userId])

\* remove('agents', id): findIndex and splice; a missing id throws.
collectionRemove(id) ==
  /\ \E i \in 1..Len(dbAgents) : dbAgents[i].id = id
  /\ LET index == CHOOSE i \in 1..Len(dbAgents) :
                    /\ dbAgents[i].id = id
                    /\ \A j \in 1..(i - 1) : dbAgents[j].id # id
     IN dbAgents' = [i \in 1..(Len(dbAgents) - 1) |->
                       IF i < index THEN dbAgents[i] ELSE dbAgents[i + 1]]

NextCollection ==
  /\ \/ /\ \/ \E userId \in AgentUsers : collectionCreate(userId)
           \/ \E id \in 1..MaxDbAgents : collectionRemove(id)
        /\ UNCHANGED agentVars
     \/ /\ \/ \E userId \in AgentUsers :
                create(NewAgentData(userId, OnlyName[1]),
                       Unspecified(OnlyName[1]))
           \/ \E id \in 1..MaxAgentId :
                /\ getById(<<id>>) # {}
                /\ remove(<<id>>)
                /\ UNCHANGED agentSeq
        /\ UNCHANGED dbAgents
  /\ UNCHANGED <<lifecycleVars, registryVars, storeVars, accountVars,
               llm, sessions, chats, sessionLog, creating>>

SpecCollection == InitServer /\ [][NextCollection]_vars

(***************************************************************************)
(* Accounts.  An account is the record (accountId, userId, email,          *)
(* createdAt, lastLogin); name, picture and metadata are left out.  An     *)
(* e-mail address is its local part and its domain.  An accountId is       *)
(* either the hash of a user id or a random string, the random strings by  *)
(* number.                                                                 *)
(***************************************************************************)
MaxAccounts == 2
MaxRandom == 2

Email(local, domain) == [local |-> local, domain |-> domain]

\* `${userId}@example.com`
DefaultEmail(userId) == Email(userId, "example.com")
SharedEmail == Email("info", "x.com")

\* body.email of POST /account: <<>> when the body has none.
BodyEmails == {<<>>, <<SharedEmail>>}

\* body.userId: "" is a missing (falsy) one.
AccountUserIds == {"", "user-a", "user-b", "__proto__"}

\* Math.random, Date.now and uuidv4 based ids
RandomAccountId(k) == [kind |-> "random", n |-> k, of |-> ""]

\* generateConsistentAccountId with every id random.
generateRandomAccountId(auth0UserId, k) == RandomAccountId(k)

\* generateConsistentAccountId: the SHA-256 of the user id in UUID layout;
\* a random UUID without a user id.
generateConsistentAccountId(auth0UserId, k) ==
  IF auth0UserId = "" THEN RandomAccountId(k)
  ELSE [kind |-> "hash", n |-> 0, of |-> auth0UserId]

Account(accountId, userId, email, createdAt, lastLogin) ==
  [accountId |-> accountId, userId |-> userId, email |-> email,
   createdAt |-> createdAt, lastLogin |-> lastLogin]

\* index[key] of a plain object used as a dictionary: <<value>> for an own
\* property.  An inherited property (__proto__, constructor) is an object
\* under whose string no account is stored, so it finds nothing.
Lookup(index, key) ==
  IF \E p \in index : p.key = key
  THEN <<(CHOOSE p \in index : p.key = key).value>>
  ELSE <<>>

\* index[key] = value with every key stored as an own property.
AssignOwn(index, key, value) ==
  {p \in index : p.key # key} \cup {[key |-> key, value |-> value]}

\* index[key] = value: the assignment to __proto__ runs the setter of
\* Object.prototype, which ignores a string.
Assign(index, key, value) ==
  IF key = "__proto__" THEN index
  ELSE {p \in index : p.key # key} \cup {[key |-> key, value |-> value]}

WithAccountId(db, accountId) ==
  LET found == {a \in db.accounts : a.accountId = accountId}
  IN IF found = {} THEN <<>> ELSE <<CHOOSE a \in found : TRUE>>

\* accountDb.getAccountByUserId: <<account>>, or <<>> for null.
getAccountByUserId(db, userId) ==
  IF useRealDatabase
  THEN LET rows == {a \in db.accounts : a.userId = userId}
       IN IF rows = {} THEN <<>> ELSE <<CHOOSE a \in rows : TRUE>>
  ELSE LET accountId == Lookup(db.userIdToAccountId, userId)
       IN IF accountId = <<>> THEN <<>> ELSE WithAccountId(db, accountId[1])

\* accountDb.getAccountByEmail
getAccountByEmail(db, email) ==
  IF useRealDatabase
  THEN LET rows == {a \in db.accounts : a.email = email}
       IN IF rows = {} THEN <<>> ELSE <<CHOOSE a \in rows : TRUE>>
  ELSE LET accountId == Lookup(db.emailToAccountId, email)
       IN IF accountId = <<>> THEN <<>> ELSE WithAccountId(db, accountId[1])

Put(rows, account) ==
  {a \in rows : a.accountId # account.accountId} \cup {account}

\* accountDb.createAccount: the INSERT fails on the PRIMARY KEY and on the
\* UNIQUE constraints of userId and email; the in-memory store assigns three
\* properties.
createAccount(db, account) ==
  IF useRealDatabase
  THEN IF \E a \in db.accounts :
            \/ a.accountId = account.accountId
            \/ a.userId = account.userId
            \/ a.email = account.email
       THEN [threw |-> TRUE, db |-> db]
       ELSE [threw |-> FALSE,
             db |-> [db EXCEPT !.accounts = @ \cup {account}]]
  ELSE [threw |-> FALSE,
        db |-> [accounts |-> Put(db.accounts, account),
                userIdToAccountId |->
                  Assign(db.userIdToAccountId, account.userId,
                         account.accountId),
                emailToAccountId |->
                  AssignOwn(db.emailToAccountId, account.email,
                            account.accountId)]]

\* accountDb.updateAccount: UPDATE ... WHERE accountId = ?, which fails on
\* the UNIQUE constraints; the in-memory store assigns accounts[accountId].
updateAccount(db, account) ==
  IF useRealDatabase
  THEN IF \E a \in db.accounts :
            /\ a.accountId # account.accountId
            /\ a.userId = account.userId \/ a.email = account.email
       THEN [threw |-> TRUE, db |-> db]
       ELSE [threw |-> FALSE,
             db |-> [db EXCEPT !.accounts =
                       IF WithAccountId(db, account.accountId) = <<>>
                       THEN @ ELSE Put(@, account)]]
  ELSE [threw |-> FALSE,
        db |-> [db EXCEPT !.accounts = Put(@, account)]]

\* The call and its result join the last two calls.
Called(x, op, userId, status, created, account) ==
  calls' = Append(IF Len(calls) = 2 THEN Tail(calls) ELSE calls,
                  [x |-> x, op |-> op, userId |-> userId, status |-> status,
                   created |-> created, account |-> account,
                   at |-> now'])

\* The outcome of a call: the store after it and the result.
Outcome(x, op, userId, result, status, created, account) ==
  /\ accountDb' = [accountDb EXCEPT ![x] = result.db]
  /\ Called(x, op, userId, status, created, account)

\* Time passes up to the call.  createAccount is not called on a full
\* store, and a random id is one that the store does not hold.
Clock(t, k, creates, db) ==
  /\ t \in now..MaxTime
  /\ now' = t
  /\ creates =>
       /\ Cardinality(db.accounts) < MaxAccounts
       /\ \A a \in db.accounts : a.accountId # RandomAccountId(k)

\* POST /api/account
AccountPOST(x, userId, email, k, t) ==
  LET db == accountDb[x]
      userEmail == IF email # <<>> THEN email[1] ELSE DefaultEmail(userId)
      account == getAccountByUserId(db, userId)
      updated == [account[1] EXCEPT
                    !.lastLogin = t,
                    !.email = IF email # <<>> THEN email[1] ELSE @]
      newAccount == Account(RandomAccountId(k), userId, userEmail, t, t)
  IN /\ Clock(t, k, userId # "" /\ account = <<>>, db)
     /\ UNCHANGED useRealDatabase
     /\ IF userId = ""
        THEN Outcome(x, "POST", userId, [db |-> db], 400, FALSE, <<>>)
        ELSE IF account # <<>>
        THEN LET result == updateAccount(db, updated)
             IN IF result.threw
                THEN Outcome(x, "POST", userId, result, 500, FALSE, <<>>)
                ELSE Outcome(x, "POST", userId, result, 200, FALSE, <<updated>>)
        ELSE LET result == createAccount(db, newAccount)
             IN IF result.threw
                THEN Outcome(x, "POST", userId, result, 500, FALSE, <<>>)
                ELSE Outcome(x, "POST", userId, result, 200, TRUE,
                             <<newAccount>>)

\* requireAuth for the user id that getAuthenticatedUserId has returned
\* (NoUser for null), with the e-mail address of the token if it has one.
requireAuth(x, userId, email, k, t) ==
  LET db == accountDb[x]
      account == getAccountByUserId(db, userId)
      updated == [account[1] EXCEPT !.lastLogin = t]
      newAccount ==
        Account(RandomAccountId(k), userId,
                IF email # <<>> THEN email[1] ELSE DefaultEmail(userId), t, t)
  IN /\ Clock(t, k, userId # NoUser /\ account = <<>>, db)
     /\ UNCHANGED useRealDatabase
     /\ IF userId = NoUser
        THEN Outcome(x, "requireAuth", userId, [db |-> db], 401, FALSE, <<>>)
        ELSE IF account # <<>>
        THEN LET result == updateAccount(db, updated)
             IN IF result.threw
                THEN Outcome(x, "requireAuth", userId, result, 500, FALSE, <<>>)
                ELSE Outcome(x, "requireAuth", userId, result, 200, FALSE,
                             <<updated>>)
        ELSE LET result == createAccount(db, newAccount)
             IN IF result.threw
                THEN Outcome(x, "requireAuth", userId, result, 500, FALSE, <<>>)
                ELSE Outcome(x, "requireAuth", userId, result, 200, TRUE,
                             <<newAccount>>)

\* ensureAccountExists(userId, email); auth0User is whether getAuth0UserById
\* returned a user.  A status of 500 stands for an exception to the caller.
ensureAccountExists(x, userId, email, auth0User, k, t) ==
  LET db == accountDb[x]
      byUserId == getAccountByUserId(db, userId)
      byEmail == getAccountByEmail(db, email)
      account == IF byUserId # <<>> THEN byUserId ELSE byEmail
      updated == [account[1] EXCEPT !.lastLogin = t]
      accountId == IF auth0User THEN generateConsistentAccountId(userId, k)
                   ELSE RandomAccountId(k)
      newAccount == Account(accountId, userId, email, t, t)
  IN /\ Clock(t, k, account = <<>>, db)
     /\ UNCHANGED useRealDatabase
     /\ IF account # <<>>
        THEN LET result == updateAccount(db, updated)
             IN IF result.threw
                THEN Outcome(x, "ensureAccountExists", userId, result, 500,
                             FALSE, <<>>)
                ELSE Outcome(x, "ensureAccountExists", userId, result, 200,
                             FALSE, <<updated>>)
        ELSE LET result == createAccount(db, newAccount)
             IN IF result.threw
                THEN Outcome(x, "ensureAccountExists", userId, result, 500,
                             FALSE, <<>>)
                ELSE Outcome(x, "ensureAccountExists", userId, result, 200,
                             TRUE, <<newAccount>>)

Randoms == 1..MaxRandom
Times == 0..MaxTime

\* One server with its account store, and the requests that reach it
\* through POST /api/account and through requireAuth.
NextAccounts ==
  /\ \/ \E userId \in AccountUserIds, email \in BodyEmails, k \in Randoms,
          t \in Times : AccountPOST(1, userId, email, k, t)
     \/ \E userId \in AccountUserIds, k \in Randoms, t \in Times :
          requireAuth(1, userId, <<>>, k, t)
  /\ UNCHANGED <<lifecycleVars, registryVars, storeVars, agentVars,
               serviceVars>>

InitAccountServer ==
  /\ self = WhatsAppPlugin
  /\ InitLifecycle
  /\ InitRegistry
  /\ InitStore
  /\ production = TRUE
  /\ InitAccounts
  /\ InitAgents
  /\ InitServices
  /\ useRealDatabase \in BOOLEAN

SpecAccounts == InitAccountServer /\ [][NextAccounts]_vars

\* Two executions of the server, each creating accounts in its own store,
\* which starts empty.
NextIdentity ==
  /\ \E x \in Executions :
       /\ accountDb[x].accounts = {}
       /\ \/ \E userId \in AccountUserIds, email \in BodyEmails, k \in Randoms,
               t \in Times : AccountPOST(x, userId, email, k, t)
          \/ \E userId \in AccountUserIds, k \in Randoms, t \in Times :
               requireAuth(x, userId, <<>>, k, t)
          \/ \E userId \in AccountUserIds \ {""}, auth0User \in BOOLEAN,
               k \in Randoms, t \in Times :
               ensureAccountExists(x, userId, DefaultEmail(userId),
                                   auth0User, k, t)
  /\ UNCHANGED <<lifecycleVars, registryVars, storeVars, agentVars,
               serviceVars>>

SpecIdentity == InitAccountServer /\ [][NextIdentity]_vars

(***************************************************************************)
(* POST /api/account and requireAuth as the two steps they are: each       *)
(* awaits getAccountByUserId and goes on, after other requests may have    *)
(* run, with the account (or null) that the lookup gave.                   *)
(***************************************************************************)
\* Bound on the requests between their lookup and their write.
MaxOverlap == 2

OverlapUserIds == {"user-a", "user-b"}

\* await getAccountByUserId(userId) of POST /api/account and of requireAuth
AccountLookup(op, userId, email) ==
  /\ Len(creating) < MaxOverlap
  /\ creating' = Append(creating,
                        [op |-> op, userId |-> userId, email |-> email,
                         account |-> getAccountByUserId(accountDb[1], userId)])
  /\ UNCHANGED accountVars

\* The rest of either handler.  The in-memory store has handed out the
\* stored object itself, so the handler changes the account as it is now;
\* the SQLite store has handed out a copy of the row.
AccountWrite(i, k, t) ==
  LET req == creating[i]
      db == accountDb[1]
      userEmail == IF req.email # <<>> THEN req.email[1]
                   ELSE DefaultEmail(req.userId)
      account == IF useRealDatabase THEN req.account[1]
                 ELSE WithAccountId(db, req.account[1].accountId)[1]
      updated == [account EXCEPT
                    !.lastLogin = t,
                    !.email = IF req.op = "POST" /\ req.email # <<>>
                              THEN req.email[1] ELSE @]
      newAccount == Account(RandomAccountId(k), req.userId, userEmail, t, t)
  IN /\ Clock(t, k, req.account = <<>>, db)
     /\ creating' = [j \in 1..(Len(creating) - 1) |->
                       IF j < i THEN creating[j] ELSE creating[j + 1]]
     /\ UNCHANGED useRealDatabase
     /\ IF req.account # <<>>
        THEN LET result == updateAccount(db, updated)
             IN IF result.threw
                THEN Outcome(1, req.op, req.userId, result, 500, FALSE, <<>>)
                ELSE Outcome(1, req.op, req.userId, result, 200, FALSE,
                             <<updated>>)
        ELSE LET result == createAccount(db, newAccount)
             IN IF result.threw
                THEN Outcome(1, req.op, req.userId, result, 500, FALSE, <<>>)
                ELSE Outcome(1, req.op, req.userId, result, 200, TRUE,
                             <<newAccount>>)

NextOverlap ==
  /\ \/ \E userId \in OverlapUserIds :
          AccountLookup("POST", userId, <<>>)
     \/ \E userId \in OverlapUserIds :
          AccountLookup("requireAuth", userId, <<>>)
     \/ \E i \in 1..Len(creating), k \in Randoms, t \in Times :
          AccountWrite(i, k, t)
  /\ UNCHANGED <<lifecycleVars, registryVars, storeVars, agentVars,
               llm, dbAgents, sessions, chats, sessionLog>>

SpecOverlap == InitAccountServer /\ [][NextOverlap]_vars

(***************************************************************************)
(* POST /agentive-chat.  sessions is the module-level object of the route, *)
(* a request in chats is suspended in createAgentiveSession ("creating")   *)
(* or in sendAgentiveMessage ("sending"), and sessionLog lists the calls   *)
(* of the two in the order they were made.  The service answers every      *)
(* session request with a new id, here the position of the call.           *)
(***************************************************************************)
\* Bound on the createAgentiveSession and sendAgentiveMessage calls of a run.
MaxSessionCalls == 5

ChatAgents == {"agent-1", "agent-2"}

Creating == {i \in 1..Len(chats) : chats[i].pc = "creating"}

\* The sequence without its i-th element.
Spliced(seq, i) ==
  [j \in 1..(Len(seq) - 1) |-> IF j < i THEN seq[j] ELSE seq[j + 1]]

sendAgentiveMessage(agentId, sessionId) ==
  [call |-> "sendAgentiveMessage", agentId |-> agentId, sessionId |-> sessionId]

\* POST up to its first await after the body: with a session in sessions
\* it calls sendAgentiveMessage, without one createAgentiveSession.
ChatPOST(agentId) ==
  LET sessionId == Lookup(sessions, agentId)
  IN /\ Len(sessionLog) + Cardinality(Creating) + 2 <= MaxSessionCalls
     /\ UNCHANGED sessions
     /\ IF sessionId = <<>>
        THEN /\ sessionLog' =
                  Append(sessionLog, [call |-> "createAgentiveSession",
                                      agentId |-> agentId, sessionId |-> 0])
             /\ chats' = Append(chats, [pc |-> "creating", agentId |-> agentId,
                                        sessionId |-> Len(sessionLog) + 1])
        ELSE /\ sessionLog' =
                  Append(sessionLog, sendAgentiveMessage(agentId, sessionId[1]))
             /\ chats' = Append(chats, [pc |-> "sending", agentId |-> agentId,
                                        sessionId |-> sessionId[1]])

\* createAgentiveSession returns: the session id is stored and the message
\* is sent on it; or it throws and the request answers 500.
SessionCreated(i, ok) ==
  LET chat == chats[i]
  IN /\ chat.pc = "creating"
     /\ IF ok
        THEN /\ sessions' = AssignOwn(sessions, chat.agentId, chat.sessionId)
             /\ sessionLog' =
                  Append(sessionLog,
                         sendAgentiveMessage(chat.agentId, chat.sessionId))
             /\ chats' = [chats EXCEPT ![i].pc = "sending"]
        ELSE /\ chats' = Spliced(chats, i)
             /\ UNCHANGED <<sessions, sessionLog>>

\* sendAgentiveMessage returns or throws: the request answers.
MessageSent(i) ==
  /\ chats[i].pc = "sending"
  /\ chats' = Spliced(chats, i)
  /\ UNCHANGED <<sessions, sessionLog>>

NextChat ==
  /\ \/ \E agentId \in ChatAgents : ChatPOST(agentId)
     \/ \E i \in 1..Len(chats), ok \in BOOLEAN : SessionCreated(i, ok)
     \/ \E i \in 1..Len(chats) : MessageSent(i)
  /\ UNCHANGED <<lifecycleVars, registryVars, storeVars, accountVars,
               agentVars, llm, dbAgents, creating>>

SpecChat == InitServer /\ [][NextChat]_vars

(***************************************************************************)
(* Plugin lifecycle properties (SpecPlugin).                               *)
(***************************************************************************)

\* C5: an initialize call that does not succeed returns false to the caller;
\* no initialize call ends with an exception, whatever the config values.
C5_InitializeNeverThrows ==
  lastCall # <<>> => lastCall[1].result \in {"true", "false"}

\* C6: after an initialize call that returned false (validation failure or
\* hook failure) the plugin is disabled, also when it was enabled before.
C6_FailedInitializeDisables ==
  (lastCall # <<>> /\ lastCall[1].result = "false") => enabled = FALSE

\* C7: in every state reached by initialize calls, an enabled plugin holds a
\* config that validateConfig accepts (no required field missing, no
\* platform-specific error, no exception).
C7_EnabledImpliesValidConfig ==
  enabled =>
    /\ ~validateConfig(self, config).threw
    /\ validateConfig(self, config).valid

\* An enabled plugin whose most recent initialize call failed.
C7_Witness ==
  /\ enabled
  /\ lastCall # <<>>
  /\ lastCall[1].result # "true"

\* C8: an initialize call with the same config as the call before it returns
\* the same result and leaves enabled and config as the first call left them.
C8_InitializeIdempotent ==
  [][(/\ lastCall # <<>>
      /\ lastCall' # <<>>
      /\ lastCall'[1].again
      /\ lastCall'[1].config = lastCall[1].config)
     => (/\ lastCall'[1].result = lastCall[1].result
         /\ enabled' = enabled
         /\ config' = config)]_vars

\* The same config was passed twice in succession and both calls succeeded.
C8_Witness ==
  /\ lastCall # <<>>
  /\ lastCall[1].again
  /\ lastCall[1].result = "true"
  /\ enabled

(***************************************************************************)
(* Registry and webhook dispatch properties (SpecRegistry).                *)
(***************************************************************************)

\* C9: after any sequence of registerPlugin and unregisterPlugin calls the
\* registry holds at most one plugin per id, registerPlugin accepts every
\* plugin (also one whose id is taken), and getPlugin(id) is the plugin of the
\* most recent registerPlugin call for id that no unregisterPlugin(id)
\* followed, or undefined.
C9_RegistryLastWriteWins ==
  /\ \A i, j \in 1..Len(plugins) : plugins[i].id = plugins[j].id => i = j
  /\ \A id \in PluginIds : getPlugin(id) = latest[id]
  /\ clock < MaxRegistrations =>
       \A plugin \in PluginObjects : ENABLED registerPlugin(plugin)

\* An id was registered again and getPlugin returns the later plugin.
C9_Witness ==
  \E i \in 1..Len(plugins) : plugins[i].registeredAt # plugins[i].insertedAt

Entry(plugin) ==
  plugins[CHOOSE i \in 1..Len(plugins) : plugins[i].id = plugin.id]

Matching(platform) ==
  {plugins[i] : i \in {j \in 1..Len(plugins) :
                         plugins[j].plugin.platform = platform}}

\* The plugins invoked are registered plugins of the platform, taken in
\* increasing order of Key with none of a smaller Key left out.
OfferedInOrderOf(w, Key(_)) ==
  /\ \A i \in 1..Len(w.invoked) :
       /\ HasKey(w.invoked[i].id)
       /\ Entry(w.invoked[i]) \in Matching(w.platform)
       /\ Entry(w.invoked[i]).plugin = w.invoked[i]
  /\ \A i, j \in 1..Len(w.invoked) :
       i < j => Key(Entry(w.invoked[i])) < Key(Entry(w.invoked[j]))
  /\ \A e \in Matching(w.platform) : \A i \in 1..Len(w.invoked) :
       Key(e) < Key(Entry(w.invoked[i])) =>
         \E k \in 1..Len(w.invoked) : w.invoked[k] = e.plugin

\* The loop stops at the first plugin that returns a message and answers
\* with the success acknowledgment; without a message every matching plugin
\* was invoked.
StopsAtFirstMessage(w) ==
  LET n == Len(w.invoked)
      Result(i) == handleWebhook(w.invoked[i], w.body[1])
  IN /\ w.status = 200
     /\ n >= 1
     /\ \A i \in 1..(n - 1) : Result(i) # "message"
     /\ IF Result(n) = "message"
        THEN w.message = "Webhook processed successfully"
        ELSE /\ w.message = "Webhook received but no handler found"
             /\ n = Cardinality(Matching(w.platform))

Dispatched(w) ==
  /\ w.method = "POST"
  /\ w.route = GenericRoute
  /\ w.platform # ""
  /\ w.body # <<>>
  /\ Matching(w.platform) # {}

RegisteredAt(e) == e.registeredAt
InsertedAt(e) == e.insertedAt

\* C10 as stated: the payload is offered to the plugins of the platform in
\* the order in which the plugins were registered (registeredAt), stopping at
\* the first one that returns a message.
C10_OfferedInRegistrationOrder ==
  (webhook # <<>> /\ Dispatched(webhook[1])) =>
    /\ OfferedInOrderOf(webhook[1], RegisteredAt)
    /\ StopsAtFirstMessage(webhook[1])

\* C10 amended: the payload is offered to the plugins of the platform in the
\* order in which their ids entered the registry (a plugin registered under
\* an id that is taken replaces the earlier plugin at that id's position),
\* stopping at the first one that returns a message: the response is the
\* success acknowledgment and no later plugin is invoked.
C10_OfferedInMapOrder ==
  (webhook # <<>> /\ Dispatched(webhook[1])) =>
    /\ OfferedInOrderOf(webhook[1], InsertedAt)
    /\ StopsAtFirstMessage(webhook[1])

\* A dispatch that stopped at a plugin registered under a taken id while a
\* plugin registered before it, under another id, was not invoked.
C10_Witness ==
  /\ webhook # <<>>
  /\ Dispatched(webhook[1])
  /\ webhook[1].message = "Webhook processed successfully"
  /\ \E e \in Matching(webhook[1].platform) :
       \A i \in 1..Len(webhook[1].invoked) : webhook[1].invoked[i] # e.plugin
  /\ Entry(webhook[1].invoked[1]).registeredAt
       # Entry(webhook[1].invoked[1]).insertedAt

(***************************************************************************)
(* Plugin configuration store properties (SpecStore).                      *)
(***************************************************************************)
\* C1: a PUT /api/plugins (row named by configId), PUT /api/plugins/:id or
\* DELETE /api/plugins/:id by an authenticated user on a stored row of
\* another user is answered 403, and the request leaves every row of the
\* table as it was.
C1_ForeignWriteForbidden ==
  \A answer \in Range(response) :
    (/\ answer.op \in {"PUT", "PUT-ID", "DELETE"}
     /\ answer.userId # NoUser
     /\ \E row \in answer.atStart : row.user_id # answer.userId)
      => /\ answer.status = 403
         /\ ~answer.wrote
         /\ ~answer.inserted

\* A request on a row of another user was just answered 403.
C1_Witness ==
  \E answer \in Range(response) :
    /\ answer.op \in {"PUT", "PUT-ID", "DELETE"}
    /\ answer.userId # NoUser
    /\ \E row \in answer.atStart : row.user_id # answer.userId
    /\ answer.status = 403

\* A POST body that passes the checks of the handler: all three fields, a
\* registered plugin, a config validateConfig accepts.
ValidPost(body) ==
  /\ body # <<>>
  /\ body[1].pluginId # ""
  /\ body[1].agentId # 0
  /\ body[1].config \notin {Undefined, Null}
  /\ getPlugin(body[1].pluginId) # <<>>
  /\ LET validationResult ==
           validateConfig(getPlugin(body[1].pluginId)[1], body[1].config)
     IN ~validationResult.threw /\ validationResult.valid

\* C2: a POST /api/plugins with a valid config for a (pluginId, agentId) the
\* user had a row for when the request arrived inserts no row; unless that
\* row was deleted meanwhile, the POST is answered 200 with the configId of
\* that row, and the row's config is the new one.
C2_SecondPostUpdates ==
  \A answer \in Range(response) :
    (/\ answer.op = "POST"
     /\ answer.userId # NoUser
     /\ ValidPost(answer.body)
     /\ answer.atStart # {})
      => /\ ~answer.inserted
         /\ \A first \in answer.atStart, row \in plugin_configs :
              row.id = first.id =>
                /\ answer.status = 200
                /\ answer.configId = first.id
                /\ row.config = JSONstringify(answer.body[1].config)

\* A second POST was just answered 200 and the row of the first POST holds
\* the second configuration.
C2_Witness ==
  \E answer \in Range(response) :
    /\ answer.op = "POST"
    /\ answer.atStart # {}
    /\ answer.status = 200
    /\ answer.wrote
    /\ \E row \in plugin_configs :
         /\ row.id = answer.configId
         /\ row.config = JSONstringify(OtherGoodConfig(WhatsAppPlugin))

\* C3: in every reachable state, also those reached by POSTs of one key that
\* overlap between the existence check and the INSERT, the table holds at
\* most one row for each (plugin_id, user_id, agent_id).
C3_OneRowPerKey ==
  \A row1 \in plugin_configs, row2 \in plugin_configs :
    (/\ row1.plugin_id = row2.plugin_id
     /\ row1.user_id = row2.user_id
     /\ row1.agent_id = row2.agent_id) => row1 = row2

\* A POST that found no row for its key when it arrived was just answered
\* after its INSERT, and the table holds a row for the key that another
\* request inserted meanwhile.
C3_Witness ==
  \E answer \in Range(response) :
    /\ answer.op = "POST"
    /\ ValidPost(answer.body)
    /\ answer.atStart = {}
    /\ ~answer.inserted
    /\ RowWithKey(answer.body[1].pluginId, answer.userId,
                  answer.body[1].agentId) # {}

\* C4: a POST /api/plugins of an authenticated user that names a registered
\* plugin and an agent and whose config object has no value for a field the
\* plugin's schema marks required is answered 400 and writes no row.
C4_MissingRequiredRejected ==
  \A answer \in Range(response) :
    (/\ answer.op = "POST"
     /\ answer.userId # NoUser
     /\ answer.body # <<>>
     /\ answer.body[1].pluginId # ""
     /\ answer.body[1].agentId # 0
     /\ answer.body[1].config \notin {Undefined, Null}
     /\ getPlugin(answer.body[1].pluginId) # <<>>
     /\ RequiredErrors(getPlugin(answer.body[1].pluginId)[1],
                       answer.body[1].config) # {})
      => /\ answer.status = 400
         /\ ~answer.wrote
         /\ ~answer.inserted

(***************************************************************************)
(* Webhook route properties (SpecWebhooks).                                *)
(***************************************************************************)
\* C11: every POST to /webhooks/{platform} or to the WhatsApp webhook route
\* is answered with a status in 200..299, whatever fails inside the
\* handler.
C11_WebhookPostAlways2xx ==
  (webhook # <<>> /\ webhook[1].method = "POST" /\ webhook[1].platform # "")
    => webhook[1].status \in 200..299

Generic(w) == w.route = GenericRoute /\ w.platform # ""

\* C12: a POST or GET /webhooks/{platform} for a platform of which the
\* registry holds no plugin is answered 404 and no plugin method is
\* invoked.
C12_NoPluginAnswers404 ==
  (webhook # <<>> /\ Generic(webhook[1]) /\ Matching(webhook[1].platform) = {})
    => /\ webhook[1].status = 404
       /\ webhook[1].invoked = <<>>

\* No plugin of the platform returns a message for the payload of w.
NoMessage(w) ==
  \A e \in Matching(w.platform) : handleWebhook(e.plugin, w.body[1]) # "message"

\* C13: a POST /webhooks/{platform} with a JSON payload for which at least
\* one plugin matches the platform and none yields a message is answered 200
\* "Webhook received but no handler found"; so is a POST /webhooks/whatsapp
\* whose payload lacks entry[0].changes when the plugins of the platform are
\* of the plugin classes of the repository; and a webhook request changes no
\* plugin, registry or store state.
C13_NoHandlerAcknowledged ==
  /\ [](\A w \in Range(webhook) :
          (/\ Dispatched(w)
           /\ \/ NoMessage(w)
              \/ /\ w.platform = "whatsapp"
                 /\ w.body[1].entry \in {"absent", "no-changes"}
                 /\ \A e \in Matching(w.platform) : e.plugin \in Plugins)
          => /\ w.status = 200
             /\ w.message = "Webhook received but no handler found")
  /\ [][webhook' # <<>> =>
          UNCHANGED <<plugins, clock, latest, lifecycleVars, plugin_configs,
                      sqlite_sequence, accounts, requests>>]_vars

\* A POST /webhooks/whatsapp without entry[0].changes offered to the
\* WhatsApp plugin.
C13_Witness ==
  /\ webhook # <<>>
  /\ Dispatched(webhook[1])
  /\ webhook[1].platform = "whatsapp"
  /\ webhook[1].body[1].entry = "no-changes"
  /\ webhook[1].invoked = <<WhatsAppPlugin>>

\* C14: when handleWebhook of a matching plugin throws before any plugin has
\* yielded a message, every later matching plugin is still invoked, up to
\* the first one that yields a message, and the answer is not a 500.
C14_ThrowDoesNotAbortDispatch ==
  \A w \in Range(webhook) :
    Dispatched(w) =>
      LET list == getPluginsByPlatform(w.platform)
          Result(i) == handleWebhook(list[i], w.body[1])
          Reached(i) == \A k \in 1..(i - 1) : Result(k) # "message"
      IN \A i \in 1..Len(list) :
           (Reached(i) /\ Result(i) = "throws") =>
             /\ w.status = 200
             /\ \A j \in (i + 1)..Len(list) :
                  Reached(j) => \E m \in 1..Len(w.invoked) : w.invoked[m] = list[j]

\* A dispatch in which a plugin threw and the next plugin was invoked.
C14_Witness ==
  /\ webhook # <<>>
  /\ Dispatched(webhook[1])
  /\ Len(webhook[1].invoked) >= 2
  /\ handleWebhook(webhook[1].invoked[1], webhook[1].body[1]) = "throws"

\* A verification request for a platform that has plugins.
VerificationRequest(w) ==
  /\ w.method = "GET"
  /\ w.platform # ""
  /\ Matching(w.platform) # {}

\* verifyWebhook of the plugin of entry e returns a truthy value for w.
Answers(w, e) == Verified(verifyWebhook(e.plugin, w.query, w.verdicts))
AnswerOf(w, e) == verifyWebhook(e.plugin, w.query, w.verdicts).value

\* The response is the answer of the plugin of the least Key among those
\* that return a truthy value, and the 400 when there is none.
AnswersFirstBy(w, Key(_)) ==
  IF \E e \in Matching(w.platform) : Answers(w, e)
  THEN LET first == CHOOSE e \in Matching(w.platform) :
                      /\ Answers(w, e)
                      /\ \A f \in Matching(w.platform) :
                           Answers(w, f) => Key(e) <= Key(f)
       IN /\ w.status = 200
          /\ w.content = AnswerOf(w, first)
  ELSE /\ w.status = 400
       /\ w.content = Message("No verification handler found for this platform")

Echo(w) ==
  /\ w.status = 200
  /\ w.contentType = "text/plain"
  /\ w.content = Str(w.query.challenge)

\* A plugin that takes part in the verification handshake: its configuration
\* schema has the verifyToken field ("Token for webhook verification"), or
\* it has a verifyWebhook member.
Verifying(plugin, verdicts) ==
  \/ \E i \in 1..Len(configSchema(plugin)) :
       configSchema(plugin)[i].key = "verifyToken"
  \/ plugin \notin Plugins /\ verdicts[plugin.id] # "absent"

\* C15: a GET /webhooks/{platform} with hub.mode=subscribe for a platform
\* with a registered verifying plugin is answered 200 text/plain with the
\* challenge as body, for every token and challenge.
C15_VerificationEchoesChallenge ==
  \A w \in Range(webhook) :
    (/\ VerificationRequest(w)
     /\ w.query.mode = "subscribe"
     /\ \E e \in Matching(w.platform) : Verifying(e.plugin, w.verdicts))
    => Echo(w)

\* C16 as stated: the response of GET /webhooks/{platform} is that of the
\* first plugin in registration order whose verifyWebhook returns a truthy
\* value, and 400 "No verification handler found" exactly when no matching
\* plugin returns one.
C16_FirstVerifierInRegistrationOrder ==
  \A w \in Range(webhook) :
    VerificationRequest(w) => AnswersFirstBy(w, RegisteredAt)

\* C16 amended: the first plugin in the iteration order of the Map.
C16_FirstVerifierInMapOrder ==
  \A w \in Range(webhook) :
    VerificationRequest(w) => AnswersFirstBy(w, InsertedAt)

\* A verification answered by a plugin while another plugin, registered
\* before it, would have returned a different truthy value.
C16_Witness ==
  /\ webhook # <<>>
  /\ VerificationRequest(webhook[1])
  /\ webhook[1].status = 200
  /\ \E e, f \in Matching(webhook[1].platform) :
       /\ Answers(webhook[1], e)
       /\ Answers(webhook[1], f)
       /\ AnswerOf(webhook[1], e) = webhook[1].content
       /\ AnswerOf(webhook[1], f) # webhook[1].content
       /\ f.registeredAt < e.registeredAt

(***************************************************************************)
(* Registry and store together (SpecIntegrity).                            *)
(***************************************************************************)
\* C17: in every reachable state the plugin_id of every row of
\* plugin_configs is the id of a plugin that is in the registry.
C17_RowsReferenceRegisteredPlugins ==
  \A row \in plugin_configs : HasKey(row.plugin_id)

(***************************************************************************)
(* Account properties (SpecAccounts, SpecIdentity).                        *)
(***************************************************************************)
\* C18: after two successive POST /account calls with the same userId the
\* account store holds exactly one account of that user id: the second call
\* created none, its account has the accountId of the first call's and a
\* lastLogin that is not earlier.
C18_SecondPostKeepsOneAccount ==
  (/\ Len(calls) = 2
   /\ calls[1].op = "POST" /\ calls[2].op = "POST"
   /\ calls[1].userId = calls[2].userId
   /\ calls[1].userId # "")
  => LET stored == {a \in accountDb[1].accounts : a.userId = calls[1].userId}
     IN /\ Cardinality(stored) = 1
        /\ ~calls[2].created
        /\ \A a \in stored :
             /\ calls[1].account # <<>>
             /\ a.accountId = calls[1].account[1].accountId
             /\ a.lastLogin >= calls[1].account[1].lastLogin

\* C19: two executions that start from an empty store and create an account
\* for the same user id give it the same accountId.
C19_AccountIdDeterminedByUserId ==
  \A a \in accountDb[1].accounts : \A b \in accountDb[2].accounts :
    a.userId = b.userId => a.accountId = b.accountId


(***************************************************************************)
(* Authentication of the /api/plugins and /api/agents handlers (SpecAuth). *)
(***************************************************************************)

\* The stores of plugin configurations, agents and accounts.
stores == <<plugin_configs, sqlite_sequence, agents, agentSeq, accounts>>

\* The last response answers a request that carried nothing that resolves
\* to a user id.
WithoutCredentials ==
  response # <<>> /\ response[1].cred \in NoCredentials

AgentRequest(ops) ==
  /\ response # <<>>
  /\ response[1].op \in ops
  /\ response[1].userId # NoUser
  /\ response[1].owners # {}

\* C21: a GET, PUT or DELETE for an agent by an authenticated user who is
\* not the agent's userId is answered 403 and leaves the agent as it is, in
\* the /agents/{id} handlers and in the PUT handler of the collection route.
C21_ForeignAgentForbidden ==
  (/\ AgentRequest({"AGENT-GET", "AGENT-PUT", "AGENT-DELETE", "AGENTS-PUT"})
   /\ response[1].userId \notin response[1].owners)
  => response[1].status = 403 /\ ~response[1].wrote


\* The default GET /api/agents/:id returns for a field of the agent.
ReadsDefault(agent, field) ==
  CASE field = "chatbotName" -> agent.chatbotName = agent.name
    [] field = "systemPrompt" ->
         /\ IsString(agent.systemPrompt)
         /\ Includes(agent.systemPrompt.s, sHelpful)
    [] field = "topColor" -> agent.topColor = Str(sTopColor)
    [] field = "accentColor" -> agent.accentColor = Str(sAccentColor)
    [] field = "backgroundColor" ->
         agent.backgroundColor = Str(sBackgroundColor)
    [] OTHER -> TRUE

\* The owner has read an agent with GET /api/agents/:id.
AgentRead ==
  /\ AgentRequest({"AGENT-GET"})
  /\ response[1].status = 200

\* C22: GET /agents/{id} by the owner of an agent returns, for every field
\* the creating request did not specify, the default value (topColor
\* "#1f2937", accentColor "#3B82F6", backgroundColor "#F3F4F6", chatbotName
\* equal to the name, a systemPrompt containing "helpful AI assistant"), and
\* temperature 0.7.
C22_CreatedAgentReadsDefaults ==
  AgentRead =>
    \A row \in agents :
      row.id = response[1].agent[1].id =>
        /\ \A field \in row.unspecified :
             ReadsDefault(response[1].agent[1], field)
        /\ response[1].agent[1].temperature = Temperature

\* An agent created with only {name: "Bot"} has been read by its owner.
C22_Witness ==
  /\ AgentRead
  /\ response[1].agent[1].name = Str(sBot)
  /\ \E row \in agents :
       /\ row.id = response[1].agent[1].id
       /\ row.unspecified = AgentFields \ {"name"}


(***************************************************************************)
(* Store failures (SpecErrors).                                            *)
(***************************************************************************)

\* C23: when a store statement fails while a handler processes a request,
\* the response has status 500, never 200 with empty data and never 404.
C23_StoreFailureAnswers500 ==
  (/\ response # <<>>
   /\ response[1].op \in {"GET", "GET-ID", "AGENTS-GET"}
   /\ response[1].status # 401
   /\ response[1].failed)
  => response[1].status = 500


(***************************************************************************)
(* LlmService properties (SpecLlm, SpecLlmFair).                           *)
(***************************************************************************)

\* C24: a generateChatCompletion call whose request to the model failed
\* (every attempt threw, the status was not OK, or the body could not be
\* parsed) does not throw; it returns the canned fallback response with
\* model 'fallback-model', whose text is determined by the messages.
C24_FailureReturnsFallback ==
  (llm.pc = "done" /\ llm.failed) =>
    /\ llm.result.kind = "returned"
    /\ llm.result.model = "fallback-model"
    /\ llm.result.response[1] = FallbackBase
    /\ llm.result = generateFallbackResponse(llm.messages)


\* C25: a generateChatCompletion call makes at most 3 fetch attempts; every
\* attempt but the last one threw, so that a response that is not OK is
\* never retried; the third attempt ends the call; and the call ends.
C25_AtMostThreeAttempts ==
  /\ [](llm.pc # "idle" =>
          /\ Len(llm.attempts) <= 3
          /\ \A i \in 1..(Len(llm.attempts) - 1) : llm.attempts[i] = "throws"
          /\ Len(llm.attempts) = 3 => llm.pc = "done")
  /\ (llm.pc \in {"fetch", "backoff"}) ~> (llm.pc = "done")

\* A call has ended after three attempts that threw.
C25_Witness ==
  /\ llm.pc = "done"
  /\ llm.attempts = <<"throws", "throws", "throws">>


\* The request of a PUT handler whose UPDATE statement runs in this step and
\* that answers 200.
PutSucceeds(r) ==
  /\ requests[r].pc = "update-run"
  /\ requests[r].op \in {"PUT", "PUT-ID"}
  /\ requests'[r] = Idle
  /\ response'[1].status = 200

\* C26: a successful PUT of either handler changes in the addressed row only
\* config and enabled, each only when the body has it, and sets updated_at
\* to the time of the update; every other column and every other row stay
\* as they are; and no step changes the owner of a row.
C26_PutChangesConfigAndEnabledOnly ==
  [][/\ \A r \in Slots :
          PutSucceeds(r) =>
            LET req == requests[r]
                body == req.body[1]
                old == CHOOSE row \in plugin_configs : row.id = req.id
                new == CHOOSE row \in plugin_configs' : row.id = req.id
            IN /\ \E row \in plugin_configs : row.id = req.id
               /\ \E row \in plugin_configs' : row.id = req.id
               /\ plugin_configs' \ {new} = plugin_configs \ {old}
               /\ new = [old EXCEPT !.config = new.config,
                                    !.enabled = new.enabled,
                                    !.updated_at = now]
               /\ body.config = Undefined => new.config = old.config
               /\ body.config # Undefined =>
                    new.config = JSONstringify(body.config)
               /\ body.enabled = <<>> => new.enabled = old.enabled
               /\ body.enabled # <<>> =>
                    new.enabled = IF body.enabled[1] THEN 1 ELSE 0
     /\ \A old \in plugin_configs, new \in plugin_configs' :
          old.id = new.id => new.user_id = old.user_id]_vars

\* A PUT has changed config and enabled of a row of one user at a later
\* time than its creation, while the table holds a row of another user.
C26_Witness ==
  /\ response # <<>>
  /\ response[1].op \in {"PUT", "PUT-ID"}
  /\ response[1].status = 200
  /\ response[1].wrote
  /\ \E row \in plugin_configs, other \in plugin_configs :
       /\ row.id = response[1].configId
       /\ row.updated_at > row.created_at
       /\ row.enabled = 1
       /\ row.config = JSONstringify(OtherGoodConfig(WhatsAppPlugin))
       /\ other.user_id # row.user_id
       /\ other.updated_at = other.created_at


\* C27: no two agents of the in-memory collection have the same id, and no
\* two rows of the agents table have.
C27_AgentIdsUnique ==
  /\ \A i, j \in 1..Len(dbAgents) :
       dbAgents[i].id = dbAgents[j].id => i = j
  /\ \A a, b \in agents : a.id = b.id => a = b


\* C28: in every state of the account store, also when requests for one
\* user id overlap between lookup and createAccount, at most one account
\* record exists per userId and getAccountByUserId returns that record.
C28_OneAccountPerUserId ==
  \A userId \in OverlapUserIds :
    LET records == {a \in accountDb[1].accounts : a.userId = userId}
    IN /\ Cardinality(records) <= 1
       /\ \A a \in records : getAccountByUserId(accountDb[1], userId) = <<a>>


\* C29: in the in-memory account store the lookup indexes agree with the
\* records: getAccountByEmail(e) returns an account exactly when it is the
\* stored account whose e-mail address is e now, and getAccountByUserId(u)
\* returns the stored account whose userId is u.
C29_IndexesAgreeWithRecords ==
  ~useRealDatabase =>
    LET db == accountDb[1]
        emails == {a.email : a \in db.accounts}
                    \cup {p.key : p \in db.emailToAccountId}
    IN /\ \A e \in emails, a \in db.accounts :
            getAccountByEmail(db, e) = <<a>> <=> a.email = e
       /\ \A a \in db.accounts : getAccountByUserId(db, a.userId) = <<a>>


\* C30: createAgentiveSession is called at most once for an agentId, and
\* every sendAgentiveMessage call for an agentId is made on the same
\* session id, also when requests for the agent overlap.
C30_OneSessionPerAgent ==
  \A i, j \in 1..Len(sessionLog) :
    sessionLog[i].agentId = sessionLog[j].agentId =>
      /\ (/\ sessionLog[i].call = "createAgentiveSession"
          /\ sessionLog[j].call = "createAgentiveSession") => i = j
      /\ (/\ sessionLog[i].call = "sendAgentiveMessage"
          /\ sessionLog[j].call = "sendAgentiveMessage")
           => sessionLog[i].sessionId = sessionLog[j].sessionId

====
